---- MODULE Spec2Model ----
(***************************************************************************)
(* hubsync: the name generator, the operation builder, the Standard and    *)
(* Parallel execution strategies, the engine client's retry loop and the   *)
(* SyncerV2.Run orchestrator.                                              *)
(*                                                                         *)
(* A Go string is a sequence of one-character strings, so that Contains,   *)
(* Split and HasPrefix are computed and not assumed.                       *)
(***************************************************************************)
EXTENDS Integers, Sequences, FiniteSets, Bags, TLC

(* ------------------------------ bounds -------------------------------- *)

\* longest hubsync array of a run
MaxImages == 3
\* largest configured concurrency of a run
MaxConcurrency == 2
\* longest generated raw image string of the name generator's inputs
MaxRawLen == 4
\* largest configured retry count of the engine client
MaxRetryCount == 3
MaxAttempt == 32
\* most operations of an Execute whose termination is checked
MaxFairImages == 2
\* longest hubsync array of a run of the Syncer with errgroup and semaphore
MaxSyncerImages == 2
\* largest Config.RetryCount of that Syncer
MaxSyncerRetry == 1
\* the goroutines that call the DI container
MaxCallers == 2
\* how many times Initialize builds the components
MaxBuilt == 2

(* --------------------------- Go strings ------------------------------- *)

\* strings.Contains(s, c) for a one-character c
Contains(s, c) == \E i \in 1..Len(s) : s[i] = c

\* strings.Contains(s, sub) for any substring
ContainsSub(s, sub) ==
    \E i \in 1..(Len(s) - Len(sub) + 1) : SubSeq(s, i, i + Len(sub) - 1) = sub

\* strings.HasPrefix(s, p)
HasPrefix(s, p) == Len(p) <= Len(s) /\ SubSeq(s, 1, Len(p)) = p

\* strings.Split(s, c) for a one-character separator: n separators give n+1 parts
RECURSIVE Split(_, _)
Split(s, c) ==
    IF Contains(s, c)
    THEN LET i == CHOOSE k \in 1..Len(s) :
                     s[k] = c /\ \A j \in 1..(k - 1) : s[j] # c
         IN  <<SubSeq(s, 1, i - 1)>> \o Split(SubSeq(s, i + 1, Len(s)), c)
    ELSE <<s>>

\* parts[len(parts)-1]
LastPart(parts) == parts[Len(parts)]

Latest == <<"l", "a", "t", "e", "s", "t">>
Yugasun == <<"y", "u", "g", "a", "s", "u", "n">>
Alpine == <<"a", "l", "p", "i", "n", "e">>

(* ------------------------- name generator ----------------------------- *)

\* a source that is left without a tag
NormalizeNoTag(base) == base

\* `if !strings.Contains(image, ":") { image = image + ":latest" }`
Normalize(base) == IF ~Contains(base, ":") THEN base \o <<":">> \o Latest ELSE base

\* an image name that keeps its path
BareNameWithPath(targetFullName) == targetFullName

\* the image name without its path: the part after the last "/"
BareName(targetFullName) ==
    IF Contains(targetFullName, "/")
    THEN LastPart(Split(targetFullName, "/"))
    ELSE targetFullName

\* a custom name that gets the tag "latest" whatever the source's tag
TargetBaseLatest(image, sourceTag, hasCustomPattern, customName, isTaggedWithVersion) ==
    IF hasCustomPattern /\ customName # <<>>
    THEN IF ~Contains(customName, ":")
         THEN customName \o <<":">> \o Latest
         ELSE customName
    ELSE image

\* the target before it is qualified: the custom name (with the source's tag
\* when it has none), else the normalized source
TargetBase(image, sourceTag, hasCustomPattern, customName, isTaggedWithVersion) ==
    IF hasCustomPattern /\ customName # <<>>
    THEN IF ~Contains(customName, ":")
         THEN customName \o <<":">> \o sourceTag
         ELSE customName
    ELSE IF isTaggedWithVersion THEN image ELSE image

\* a qualification that also strips a target already under the namespace
QualifyAlways(targetFullName, repository, namespace) ==
    IF repository = <<>>
    THEN namespace \o <<"/">> \o BareName(targetFullName)
    ELSE repository \o <<"/">> \o namespace \o <<"/">> \o BareName(targetFullName)

\* the target qualified with the repository and the namespace
Qualify(targetFullName, repository, namespace) ==
    IF repository = <<>>
    THEN IF ~HasPrefix(targetFullName, namespace \o <<"/">>)
         THEN namespace \o <<"/">> \o BareName(targetFullName)
         ELSE targetFullName
    ELSE repository \o <<"/">> \o namespace \o <<"/">> \o BareName(targetFullName)

\* SyncerV2.generateImageReferences: the source and target references of a raw
\* image string
generateImageReferences(originalImage, repository, namespace) ==
    LET hasCustomPattern == Contains(originalImage, "$")
        parts == Split(originalImage, "$")
        base == IF hasCustomPattern THEN parts[1] ELSE originalImage
        customName == IF hasCustomPattern /\ Len(parts) > 1 THEN parts[2] ELSE <<>>
        image == Normalize(base)
        sourceParts == Split(image, ":")
        sourceTag == IF Len(sourceParts) > 1 THEN sourceParts[2] ELSE Latest
        isTaggedWithVersion ==
            ContainsSub(originalImage, <<":", "v">>) /\ hasCustomPattern
        targetFullName ==
            Qualify(TargetBase(image, sourceTag, hasCustomPattern, customName,
                               isTaggedWithVersion),
                    repository, namespace)
        targetParts == Split(targetFullName, ":")
    IN  [Source |-> [FullName |-> image,
                     Repository |-> <<>>,
                     Name |-> sourceParts[1],
                     Tag |-> sourceTag],
         Target |-> [FullName |-> targetFullName,
                     Repository |-> repository,
                     Name |-> targetParts[1],
                     Tag |-> IF Len(targetParts) > 1 THEN targetParts[2] ELSE Latest]]

(* ------------------------------ state --------------------------------- *)

VARIABLES
    \* name generator: the raw string and the configuration, whether the generator
    \* has returned, and what it returned
    nameIn, namePc, nameOut,
    \* Config.Validate: the Config it is called on, whether it has returned, and
    \* the error it returned
    validateIn, validatePc, validateRet,
    \* the backoff of performWithRetry: Config.RetryDelay and the attempt, whether
    \* the delay has been computed, and backoffDelay, a 64-bit word
    backoffIn, backoffPc, backoffOut,
    \* performWithRetry: Config.RetryCount and the operation type, the loop's
    \* attempt, the step ("off", "loop", "wait", "woken", "call", "read", "returned"), the
    \* outcome of every call of the operation so far, lastErr, whether ctx is
    \* cancelled, and the error returned
    retryCfg, attempt, retryPc, attemptLog, lastErr, retryCancelled, retryRet,
    \* config.Config of the run: Content, MaxContent, Concurrency, DryRun, Force,
    \* Repository, Namespace
    config,
    \* whether Run has been called before on this SyncerV2
    rerun,
    \* ctx.Err() != nil
    cancelled,
    \* how many operations had been dispatched when ctx was cancelled (-1: never)
    cancelPoint,
    \* where SyncerV2.Run is: "init", "execute", "finish", "returned"
    runPc,
    \* the error Run returned: "none" until it returns, then "nil" or the error type
    runErr,
    \* SyncerV2 fields
    operations, sresults, statistics, processedCount, strategy,
    \* the file at config.OutputPath
    outputFile,
    \* Execute: the results list being built or returned, and the error returned
    results, execErr,
    \* StandardStrategy.Execute: the loop index, the step and the result of the
    \* operation being executed
    stdIdx, stdPc, stdCur,
    \* ParallelStrategy.Execute: the channels, the feeder's loop index
    \* (0: jobChan closed), and the pool: the bag of the workers' states, each a
    \* step ("recv", "check", "pull", "tag", "push", "send", "exit"), a job and the
    \* result being built
    jobChan, feederIdx, resultChan, resultClosed, workers,
    \* the engine calls made for each operation, with their outcomes
    engineLog,
    \* what the operating system answered to generateOutput ("none": not asked)
    outputIO,
    \* Syncer.generateTargetName: the (source, target) pair it returned
    targetNameOut,
    \* Syncer (errgroup and semaphore): its Config (Concurrency, RetryCount,
    \* Repository, Namespace), the parsed images, where Run is ("off", "loop",
    \* "wait", "output", "returned"), the index of Run's loop, and the error
    \* Run returned
    syncerCfg, syncerImages, syncerPc, loopIdx, syncerRet,
    \* the goroutines of g.Go, by image index: the step, the local variables of
    \* ProcessImageWithRetry and the pairs handed to the engine client
    goroutines,
    \* the weight acquired from sem, the holder of s.mutex (0: unlocked),
    \* s.Output and s.stats
    sem, mutex, Output, syncerStats,
    \* the caller's context is cancelled, the errgroup's context is done, and
    \* the first error of the group
    callerCancelled, groupDone, groupErr,
    \* di.Container: its fields, the holder of its mutex (0: unlocked), the
    \* goroutines calling it, the number of components built so far and the
    \* components closed so far
    container, containerMutex, callers, built, closed

nameVars == <<nameIn, namePc, nameOut>>
retryVars == <<retryCfg, attempt, retryPc, attemptLog, lastErr, retryCancelled, retryRet>>
syncerVars == <<operations, sresults, statistics, processedCount, strategy, outputFile>>
ctxVars == <<cancelled, cancelPoint>>
stdVars == <<stdIdx, stdPc, stdCur>>
parVars == <<jobChan, feederIdx, resultChan, resultClosed, workers>>
heldVars == <<config, rerun>>
runVars == <<heldVars, ctxVars, runPc, runErr, syncerVars, results, execErr,
             stdVars, parVars, engineLog, outputIO>>
validateVars == <<validateIn, validatePc, validateRet>>
backoffVars == <<backoffIn, backoffPc, backoffOut>>
legacyRunVars == <<syncerCfg, syncerImages, syncerPc, loopIdx, syncerRet, goroutines, sem,
                   mutex, Output, syncerStats, callerCancelled, groupDone, groupErr>>
legacyVars == <<targetNameOut, legacyRunVars>>
containerVars == <<container, containerMutex, callers, built, closed>>
vars == <<nameVars, validateVars, backoffVars, retryVars, runVars, legacyVars,
          containerVars>>

(* ------------------------- values of the run -------------------------- *)

\* the image name at position i of a hubsync array: "a", "aa", "aaa", ...
ImageAt(i) == [j \in 1..i |-> "a"]

\* the hubsync arrays of at most n entries: each entry is the empty string or the
\* image name of its position
Arrays(n) == UNION {{l \in [1..k -> {<<>>} \cup {ImageAt(i) : i \in 1..k}] :
                        \A i \in 1..k : l[i] \in {<<>>, ImageAt(i)}} : k \in 0..n}

\* config.Content: text that is not JSON, or a document with a hubsync array
Contents ==
    {[valid |-> FALSE, hubsync |-> <<>>]}
        \cup {[valid |-> TRUE, hubsync |-> l] : l \in Arrays(MaxImages)}

NoResult == [Operation |-> 0, Success |-> FALSE, Error |-> "nil", DetailedLogs |-> <<>>]
NoFile == [exists |-> FALSE, lines |-> <<>>]
ZeroStatistics == [TotalImages |-> 0, Successful |-> 0, Failed |-> 0, Skipped |-> 0]

(* ----------------------- parse, build, select ------------------------- *)

\* a size check that rejects an array of exactly maxContent entries
parseContentOffByOne(content, maxContent) ==
    IF ~content.valid THEN [err |-> TRUE, images |-> <<>>]
    ELSE IF Len(content.hubsync) >= maxContent THEN [err |-> TRUE, images |-> <<>>]
    ELSE [err |-> FALSE, images |-> content.hubsync]

\* SyncerV2.parseContent: the image list, or an error for text that is not JSON
\* and for more than MaxContent images
parseContent(content, maxContent) ==
    IF ~content.valid THEN [err |-> TRUE, images |-> <<>>]
    ELSE IF Len(content.hubsync) > maxContent THEN [err |-> TRUE, images |-> <<>>]
    ELSE [err |-> FALSE, images |-> content.hubsync]

\* the entries createSyncOperations skips
IsSkipped(imageName) == imageName = <<>>

\* a builder that makes an operation of an empty entry too
createSyncOperationsKeepEmpty(images, cfg) ==
    [k \in 1..Len(images) |->
        LET refs == generateImageReferences(images[k], cfg.Repository, cfg.Namespace)
        IN  [Source |-> refs.Source,
             Target |-> refs.Target,
             ValidateDst |-> ~cfg.Force,
             Force |-> cfg.Force,
             DryRun |-> cfg.DryRun]]

\* a builder that returns the operations in the reverse order of the entries
createSyncOperationsReversed(images, cfg) ==
    LET kept == SelectSeq(images, LAMBDA imageName : ~IsSkipped(imageName))
    IN  [k \in 1..Len(kept) |->
            LET refs == generateImageReferences(kept[Len(kept) + 1 - k],
                                                cfg.Repository, cfg.Namespace)
            IN  [Source |-> refs.Source,
                 Target |-> refs.Target,
                 ValidateDst |-> ~cfg.Force,
                 Force |-> cfg.Force,
                 DryRun |-> cfg.DryRun]]

\* SyncerV2.createSyncOperations: one operation per entry that is not skipped, in
\* the order of the entries
createSyncOperations(images, cfg) ==
    LET kept == SelectSeq(images, LAMBDA imageName : ~IsSkipped(imageName))
    IN  [k \in 1..Len(kept) |->
            LET refs == generateImageReferences(kept[k], cfg.Repository, cfg.Namespace)
            IN  [Source |-> refs.Source,
                 Target |-> refs.Target,
                 ValidateDst |-> ~cfg.Force,
                 Force |-> cfg.Force,
                 DryRun |-> cfg.DryRun]]

\* the s.statistics.Skipped++ of createSyncOperations, one for each skipped entry
SkippedCount(images) == Cardinality({i \in 1..Len(images) : IsSkipped(images[i])})

\* a choice that takes the Parallel strategy for a concurrency of 1 too
SelectStrategyFromOne(concurrency) == IF concurrency >= 1 THEN "parallel" ELSE "standard"

\* the strategy Run asks the factory for
SelectStrategy(concurrency) == IF concurrency > 1 THEN "parallel" ELSE "standard"

\* NewParallelStrategy: the number of workers
DefaultConcurrency == 4
\* a pool with one worker too many
NewParallelStrategyExtra(concurrency) ==
    IF concurrency <= 0 THEN DefaultConcurrency ELSE concurrency + 1

NewParallelStrategy(concurrency) ==
    IF concurrency <= 0 THEN DefaultConcurrency ELSE concurrency

\* a worker waiting for a job, and the pool Execute spawns: k such workers. The
\* workers differ only by the id they write into log and error text, so the
\* pool is the bag of their states
IdleWorker == [pc |-> "recv", job |-> 0, cur |-> NoResult]
Pool(k) == [ws \in (IF k > 0 THEN {IdleWorker} ELSE {}) |-> k]

(* --------------------- executeSingleOperation ------------------------- *)

\* the result created when an operation starts. The text of the log lines and of
\* the errors is left out: the image names and, in the Parallel strategy, the
\* "Worker-%d: " prefix, the only place where the workers' ids are used
StartResult(op) ==
    [Operation |-> op, Success |-> FALSE, Error |-> "nil", DetailedLogs |-> <<>>]

\* a dry-run short-circuit that forgets result.Success = true
DryRunResultUnset(r) ==
    [r EXCEPT !.DetailedLogs = Append(@, "Dry run: would sync")]

\* the dry-run short-circuit
DryRunResult(r) ==
    [r EXCEPT !.Success = TRUE,
              !.DetailedLogs = Append(@, "Dry run: would sync")]

\* the log line written before a step's engine call
StepLog(step) ==
    CASE step = "pull" -> "Pulling source image"
      [] step = "tag" -> "Tagging image"
      [] step = "push" -> "Pushing target image"

\* the step after a successful one ("done" after push)
StepAfter(step) ==
    CASE step = "pull" -> "tag"
      [] step = "tag" -> "push"
      [] step = "push" -> "done"

\* a failed step that leaves result.Error unset
StepFailedUnset(r, step) ==
    [r EXCEPT !.DetailedLogs = Append(@, step \o " failed")]

\* the result after a step's engine call returned an error: the operation ends
StepFailed(r, step) ==
    [r EXCEPT !.Error = "failed to " \o step,
              !.DetailedLogs = Append(@, step \o " failed")]

\* the result after a step's engine call returned nil
StepSucceeded(r, step) ==
    IF StepAfter(step) = "done"
    THEN [r EXCEPT !.Success = TRUE,
                   !.DetailedLogs = Append(@, "Synchronization completed successfully")]
    ELSE [r EXCEPT !.DetailedLogs = Append(@, StepLog(StepAfter(step)))]

\* an engine call issued for operation op, and its return
CallIssued(log, op, step) ==
    [log EXCEPT ![op] = Append(@, [call |-> step, result |-> "inflight"])]
CallReturned(log, op, ok) ==
    [log EXCEPT ![op][Len(log[op])].result = IF ok THEN "nil" ELSE "error"]

(* -------------------- statistics and the output ----------------------- *)

\* a count that takes every result for a success
calculateStatisticsAllSuccessful(stats, rs) ==
    [stats EXCEPT !.Successful = @ + Len(rs)]

\* SyncerV2.calculateStatistics: the counts are added to s.statistics
calculateStatistics(stats, rs) ==
    [stats EXCEPT
        !.Successful = @ + Cardinality({i \in 1..Len(rs) : rs[i].Success}),
        !.Failed = @ + Cardinality({i \in 1..Len(rs) : ~rs[i].Success})]

\* the lines the template renders: a docker pull line for each successful result,
\* then, when Stats.Failed > 0, the header and a line for each failed result
OutputLines(rs, stats, ops) ==
    LET pull(r) == [kind |-> "docker pull",
                    source |-> ops[r.Operation].Source.FullName,
                    target |-> ops[r.Operation].Target.FullName,
                    error |-> "nil"]
        failed(r) == [kind |-> "failed",
                      source |-> ops[r.Operation].Source.FullName,
                      target |-> ops[r.Operation].Target.FullName,
                      error |-> r.Error]
        ok == SelectSeq(rs, LAMBDA r : r.Success)
        ko == SelectSeq(rs, LAMBDA r : ~r.Success)
    IN  [i \in 1..Len(ok) |-> pull(ok[i])]
            \o (IF stats.Failed > 0
                THEN <<[kind |-> "failed to sync", source |-> <<>>, target |-> <<>>,
                        error |-> "nil"]>>
                         \o [i \in 1..Len(ko) |-> failed(ko[i])]
                ELSE <<>>)

\* an output stage that turns a failed image into an error of the run
generateOutputEscalating(rs, stats, ops, old, io, written) ==
    IF Len(rs) = 0 \/ stats.Failed > 0 \/ io = "create fails"
    THEN [err |-> TRUE, file |-> old]
    ELSE IF io = "write fails"
    THEN [err |-> TRUE,
          file |-> [exists |-> TRUE,
                    lines |-> SubSeq(OutputLines(rs, stats, ops), 1, written)]]
    ELSE [err |-> FALSE,
          file |-> [exists |-> TRUE, lines |-> OutputLines(rs, stats, ops)]]

\* SyncerV2.generateOutput: an error without touching the file when there is no
\* result; else the file is created (io = "create fails": error, no file) and the
\* template written to it (io = "write fails": error, the file holds written lines)
generateOutput(rs, stats, ops, old, io, written) ==
    IF Len(rs) = 0 THEN [err |-> TRUE, file |-> old]
    ELSE IF io = "create fails" THEN [err |-> TRUE, file |-> old]
    ELSE IF io = "write fails"
    THEN [err |-> TRUE,
          file |-> [exists |-> TRUE,
                    lines |-> SubSeq(OutputLines(rs, stats, ops), 1, written)]]
    ELSE [err |-> FALSE,
          file |-> [exists |-> TRUE, lines |-> OutputLines(rs, stats, ops)]]

\* SyncerV2.GetProcessedImageCount
GetProcessedImageCount == statistics.Successful

(* ------------------------------ the run ------------------------------- *)

\* the configurations a run starts from
Configs ==
    [Content : Contents,
     MaxContent : {MaxImages - 1, MaxImages},
     Concurrency : 0..MaxConcurrency,
     DryRun : BOOLEAN,
     Force : {FALSE},
     Repository : {<<>>},
     Namespace : {<<"n">>}]

NoRefs ==
    [Source |-> [FullName |-> <<>>, Repository |-> <<>>, Name |-> <<>>, Tag |-> <<>>],
     Target |-> [FullName |-> <<>>, Repository |-> <<>>, Name |-> <<>>, Tag |-> <<>>]]

\* time.Duration is an int64: a word of 64 bits in two's complement, bit 0 the
\* lowest, bit 63 the sign
WordBits == 0..63
ZeroWord == [i \in WordBits |-> 0]

\* a duration of mant * 2^exp nanoseconds
Duration(mant, exp) == [mant |-> mant, exp |-> exp]

\* the backoff computation is not in use
BackoffIdle ==
    /\ backoffIn = [RetryDelay |-> Duration(0, 0), attempt |-> 0]
    /\ backoffPc = "off"
    /\ backoffOut = ZeroWord

\* the zero value of Config
ZeroConfig ==
    [Username |-> "", Password |-> "", Content |-> "", LogLevel |-> "",
     Concurrency |-> 0, RetryCount |-> 0]

NoError == [type |-> "nil", message |-> ""]

\* Config.Validate is not in use
ValidateIdle ==
    /\ validateIn = ZeroConfig
    /\ validatePc = "off"
    /\ validateRet = NoError

\* the name generator is not in use
NameIdle ==
    /\ nameIn = [raw |-> <<>>, repository |-> <<>>, namespace |-> <<>>]
    /\ namePc = "off"
    /\ nameOut = NoRefs

\* the engine client is not in use
RetryIdle ==
    /\ retryCfg = [RetryCount |-> 0, operationType |-> "Pull"]
    /\ attempt = 0
    /\ retryPc = "off"
    /\ attemptLog = <<>>
    /\ lastErr = "nil"
    /\ retryCancelled = FALSE
    /\ retryRet = [type |-> "none", cause |-> "nil", attempts |-> 0]

\* Syncer.generateTargetName has not been called
NoPair == [source |-> <<>>, target |-> <<>>]

\* s.stats of a new Syncer
ZeroStats == [TotalImages |-> 0, Successful |-> 0, Failed |-> 0, Skipped |-> 0]

\* the (errgroup and semaphore) Syncer is not in use
LegacyRunIdle ==
    /\ syncerCfg = [Concurrency |-> 0, RetryCount |-> 0, Repository |-> <<>>,
                    Namespace |-> <<>>]
    /\ syncerImages = <<>>
    /\ syncerPc = "off"
    /\ loopIdx = 0
    /\ syncerRet = "none"
    /\ goroutines = <<>>
    /\ sem = 0
    /\ mutex = 0
    /\ Output = <<>>
    /\ syncerStats = ZeroStats
    /\ callerCancelled = FALSE
    /\ groupDone = FALSE
    /\ groupErr = "nil"

LegacyIdle ==
    /\ targetNameOut = NoPair
    /\ LegacyRunIdle

\* a nil *config.Config
NoCfg == [set |-> FALSE, MetricsEnabled |-> FALSE]

\* the Container that GetInstance builds: no field is set; a component is the
\* number of the Initialize that built it, and 0 is nil
NewContainer ==
    [config |-> NoCfg, dockerClient |-> 0, registryClient |-> 0,
     syncer |-> [id |-> 0, client |-> 0, registry |-> 0],
     telemetryManager |-> 0, metricsManager |-> 0, initialized |-> FALSE]

\* the DI container is not in use
ContainerIdle ==
    /\ container = NewContainer
    /\ containerMutex = 0
    /\ callers = <<>>
    /\ built = 0
    /\ closed = {}

\* the fields of a SyncerV2 that NewSyncerV2 returned, a context that is not
\* cancelled and no output file
RunFresh ==
    /\ rerun = FALSE
    /\ cancelled = FALSE
    /\ cancelPoint = -1
    /\ runErr = "none"
    /\ operations = <<>>
    /\ sresults = <<>>
    /\ statistics = ZeroStatistics
    /\ processedCount = 0
    /\ strategy = "none"
    /\ outputFile = NoFile
    /\ results = <<>>
    /\ execErr = "none"
    /\ stdIdx = 0
    /\ stdPc = "idle"
    /\ stdCur = NoResult
    /\ jobChan = <<>>
    /\ feederIdx = 0
    /\ resultChan = <<>>
    /\ resultClosed = FALSE
    /\ workers = EmptyBag
    /\ engineLog = <<>>
    /\ outputIO = "none"

\* no run is in progress
RunIdle ==
    /\ config = [Content |-> [valid |-> FALSE, hubsync |-> <<>>], MaxContent |-> 0,
                 Concurrency |-> 0, DryRun |-> FALSE, Force |-> FALSE,
                 Repository |-> <<>>, Namespace |-> <<>>]
    /\ runPc = "off"
    /\ RunFresh

\* the state after NewSyncerV2, before Run is called
Init ==
    /\ NameIdle
    /\ ValidateIdle
    /\ BackoffIdle
    /\ RetryIdle
    /\ LegacyIdle
    /\ ContainerIdle
    /\ config \in Configs
    /\ runPc = "init"
    /\ RunFresh

NumOps == Len(operations)

\* the operations dispatched so far: started by the Standard loop, or put on the
\* job queue by the Parallel feeder
Dispatched ==
    IF strategy = "standard" THEN (stdIdx - 1) + (IF stdPc = "check" THEN 0 ELSE 1)
    ELSE IF strategy = "parallel" THEN (IF feederIdx = 0 THEN NumOps ELSE feederIdx - 1)
    ELSE 0

\* the run's context is cancelled (a timeout or a signal), at any time before
\* Execute has returned
Cancel ==
    /\ runPc \in {"init", "execute"}
    /\ ~cancelled
    /\ cancelled' = TRUE
    /\ cancelPoint' = Dispatched
    /\ UNCHANGED <<legacyVars, containerVars, nameVars, validateVars, backoffVars, retryVars, heldVars, runPc, runErr, syncerVars, results, execErr,
                   stdVars, parVars, engineLog, outputIO>>

\* SyncerV2.Run up to the call of Execute: parse, build, select the strategy
RunStart ==
    /\ runPc = "init"
    /\ LET p == parseContent(config.Content, config.MaxContent)
           ops == createSyncOperations(p.images, config)
           name == SelectStrategy(config.Concurrency)
           k == IF name = "parallel" THEN NewParallelStrategy(config.Concurrency) ELSE 0
       IN  IF p.err
           THEN /\ runErr' = "ConfigError"
                /\ runPc' = "returned"
                /\ UNCHANGED <<syncerVars, results, stdVars, parVars, engineLog>>
           ELSE /\ runPc' = "execute"
                /\ runErr' = runErr
                /\ statistics' = [statistics EXCEPT
                                     !.TotalImages = Len(p.images),
                                     !.Skipped = @ + SkippedCount(p.images)]
                /\ operations' = ops
                /\ strategy' = name
                /\ results' = <<>>
                /\ engineLog' = [i \in 1..Len(ops) |-> <<>>]
                /\ stdIdx' = IF name = "standard" THEN 1 ELSE 0
                /\ stdPc' = IF name = "standard" THEN "check" ELSE "idle"
                /\ stdCur' = NoResult
                /\ jobChan' = <<>>
                /\ feederIdx' = IF name = "parallel" THEN 1 ELSE 0
                /\ resultChan' = <<>>
                /\ resultClosed' = FALSE
                /\ workers' = Pool(k)
                /\ UNCHANGED <<sresults, processedCount, outputFile>>
    /\ UNCHANGED <<legacyVars, containerVars, nameVars, validateVars, backoffVars, retryVars, heldVars, ctxVars, execErr, outputIO>>

(* ------------------------- Standard strategy -------------------------- *)

\* the result when operation op starts: the dry-run result, or the result with
\* the log line of the pull that is issued
BeginResult(op) ==
    IF operations[op].DryRun
    THEN DryRunResult(StartResult(op))
    ELSE [StartResult(op) EXCEPT !.DetailedLogs = <<StepLog("pull")>>]

\* an operation that goes on to the next step after a failed call
EndsOperationAtPush(step, ok) == StepAfter(step) = "done"

\* an engine call that returned ends the operation: it failed, or it was the push
EndsOperation(step, ok) == ~ok \/ StepAfter(step) = "done"

\* the result after the engine call of a step returned
StepResult(r, step, ok) == IF ok THEN StepSucceeded(r, step) ELSE StepFailed(r, step)

\* the engine log after the call of a step returned (the next call is issued
\* unless the operation ends)
StepLogged(log, op, step, ok) ==
    IF EndsOperation(step, ok)
    THEN CallReturned(log, op, ok)
    ELSE CallIssued(CallReturned(log, op, ok), op, StepAfter(step))

StdRunning == runPc = "execute" /\ strategy = "standard"

\* a loop that puts the newest result first
PrependResult(rs, r) == <<r>> \o rs

\* `results = append(results, result)`
AppendResult(rs, r) == Append(rs, r)

\* the loop is over: return results, nil
StdReturn ==
    /\ StdRunning /\ stdPc = "check" /\ stdIdx > NumOps
    /\ execErr' = "nil"
    /\ runPc' = "finish"
    /\ UNCHANGED <<legacyVars, containerVars, nameVars, validateVars, backoffVars, retryVars, heldVars, ctxVars, runErr, syncerVars, results,
                   stdVars, parVars, engineLog, outputIO>>

\* a cancelled loop that returns the error without the results so far
StdCancelledDropsResults ==
    /\ StdRunning /\ stdPc = "check" /\ stdIdx <= NumOps
    /\ cancelled
    /\ execErr' = "ContextError"
    /\ results' = <<>>
    /\ runPc' = "finish"
    /\ UNCHANGED <<legacyVars, containerVars, nameVars, validateVars, backoffVars, retryVars, heldVars, ctxVars, runErr, syncerVars, stdVars,
                   parVars, engineLog, outputIO>>

\* ctx.Err() != nil before an operation: return the results so far and a
\* ContextError
StdCancelled ==
    /\ StdRunning /\ stdPc = "check" /\ stdIdx <= NumOps
    /\ cancelled
    /\ execErr' = "ContextError"
    /\ runPc' = "finish"
    /\ UNCHANGED <<legacyVars, containerVars, nameVars, validateVars, backoffVars, retryVars, heldVars, ctxVars, runErr, syncerVars, results,
                   stdVars, parVars, engineLog, outputIO>>

\* executeSingleOperation starts: a dry run is over at once and its result is
\* appended; otherwise PullImage is called
StdBegin ==
    /\ StdRunning /\ stdPc = "check" /\ stdIdx <= NumOps
    /\ ~cancelled
    /\ IF operations[stdIdx].DryRun
       THEN /\ results' = AppendResult(results, BeginResult(stdIdx))
            /\ stdIdx' = stdIdx + 1
            /\ UNCHANGED <<stdPc, stdCur, engineLog>>
       ELSE /\ stdCur' = BeginResult(stdIdx)
            /\ stdPc' = "pull"
            /\ engineLog' = CallIssued(engineLog, stdIdx, "pull")
            /\ UNCHANGED <<results, stdIdx>>
    /\ UNCHANGED <<legacyVars, containerVars, nameVars, validateVars, backoffVars, retryVars, heldVars, ctxVars, runPc, runErr, syncerVars, execErr,
                   parVars, outputIO>>

\* the engine call in flight returns, nil or an error: the next call is issued,
\* or the operation ends and its result is appended
StdStep ==
    /\ StdRunning /\ stdPc \in {"pull", "tag", "push"}
    /\ \E ok \in BOOLEAN :
        /\ engineLog' = StepLogged(engineLog, stdIdx, stdPc, ok)
        /\ IF EndsOperation(stdPc, ok)
           THEN /\ results' = AppendResult(results, StepResult(stdCur, stdPc, ok))
                /\ stdIdx' = stdIdx + 1
                /\ stdPc' = "check"
                /\ stdCur' = NoResult
           ELSE /\ stdCur' = StepResult(stdCur, stdPc, ok)
                /\ stdPc' = StepAfter(stdPc)
                /\ UNCHANGED <<results, stdIdx>>
    /\ UNCHANGED <<legacyVars, containerVars, nameVars, validateVars, backoffVars, retryVars, heldVars, ctxVars, runPc, runErr, syncerVars, execErr,
                   parVars, outputIO>>

(* ------------------------- Parallel strategy -------------------------- *)

ParRunning == runPc = "execute" /\ strategy = "parallel"
FeederRunning == strategy = "parallel" /\ feederIdx \in 1..NumOps

\* the feeder's select takes `jobChan <- op` (the channel holds every operation,
\* so the send is always ready)
FeederEnqueue ==
    /\ FeederRunning
    /\ Len(jobChan) < NumOps
    /\ jobChan' = Append(jobChan, feederIdx)
    /\ feederIdx' = feederIdx + 1
    /\ UNCHANGED <<legacyVars, containerVars, nameVars, validateVars, backoffVars, retryVars, heldVars, ctxVars, runPc, runErr, syncerVars, results,
                   execErr, stdVars, resultChan, resultClosed, workers, engineLog,
                   outputIO>>

\* a feeder whose `<-ctx.Done()` case returns from the goroutine, past the
\* close of the job queue
FeederSkipReturns ==
    /\ FeederRunning
    /\ cancelled
    /\ feederIdx' = NumOps + 2
    /\ UNCHANGED <<legacyVars, containerVars, nameVars, validateVars, backoffVars, retryVars, heldVars, ctxVars, runPc, runErr, syncerVars, results,
                   execErr, stdVars, jobChan, resultChan, resultClosed, workers,
                   engineLog, outputIO>>

\* the feeder's select takes `<-ctx.Done()`: its break leaves the select, not the
\* loop, which goes on with the next operation
FeederSkip ==
    /\ FeederRunning
    /\ cancelled
    /\ feederIdx' = feederIdx + 1
    /\ UNCHANGED <<legacyVars, containerVars, nameVars, validateVars, backoffVars, retryVars, heldVars, ctxVars, runPc, runErr, syncerVars, results,
                   execErr, stdVars, jobChan, resultChan, resultClosed, workers,
                   engineLog, outputIO>>

\* close(jobChan) after the loop
FeederClose ==
    /\ strategy = "parallel" /\ feederIdx = NumOps + 1
    /\ feederIdx' = 0
    /\ UNCHANGED <<legacyVars, containerVars, nameVars, validateVars, backoffVars, retryVars, heldVars, ctxVars, runPc, runErr, syncerVars, results,
                   execErr, stdVars, jobChan, resultChan, resultClosed, workers,
                   engineLog, outputIO>>

\* the pool after one worker in state old took a step to state new
Moved(old, new) == (workers (-) SetToBag({old})) (+) SetToBag({new})

\* the workers of the pool that satisfy P
Count(P(_)) ==
    BagCardinality([ws \in {x \in BagToSet(workers) : P(x)} |-> workers[ws]])

\* `for job := range jobChan`: a worker receives the next job
WorkerRecv(ws) ==
    /\ ParRunning /\ ws.pc = "recv"
    /\ jobChan # <<>>
    /\ workers' = Moved(ws, [ws EXCEPT !.pc = "check", !.job = Head(jobChan)])
    /\ jobChan' = Tail(jobChan)
    /\ UNCHANGED <<legacyVars, containerVars, nameVars, validateVars, backoffVars, retryVars, heldVars, ctxVars, runPc, runErr, syncerVars,
                   results, execErr, stdVars, feederIdx, resultChan, resultClosed,
                   engineLog, outputIO>>

\* jobChan is closed and empty: the range loop ends and the worker is done
WorkerExit(ws) ==
    /\ ParRunning /\ ws.pc = "recv"
    /\ jobChan = <<>> /\ feederIdx = 0
    /\ workers' = Moved(ws, [ws EXCEPT !.pc = "exit"])
    /\ UNCHANGED <<legacyVars, containerVars, nameVars, validateVars, backoffVars, retryVars, heldVars, ctxVars, runPc, runErr, syncerVars,
                   results, execErr, stdVars, jobChan, feederIdx, resultChan,
                   resultClosed, engineLog, outputIO>>

\* a worker that executes the job it received whatever workerCtx.Err() is
WorkerCancelledExecutes(ws) ==
    /\ ParRunning /\ ws.pc = "check"
    /\ cancelled
    /\ workers' = Moved(ws, [ws EXCEPT !.pc = "pull", !.cur = BeginResult(ws.job)])
    /\ engineLog' = CallIssued(engineLog, ws.job, "pull")
    /\ UNCHANGED <<legacyVars, containerVars, nameVars, validateVars, backoffVars, retryVars, heldVars, ctxVars, runPc, runErr, syncerVars,
                   results, execErr, stdVars, jobChan, feederIdx, resultChan,
                   resultClosed, outputIO>>

\* workerCtx.Err() != nil after a job was received: the worker returns, and the
\* job gets no result
WorkerCancelled(ws) ==
    /\ ParRunning /\ ws.pc = "check"
    /\ cancelled
    /\ workers' = Moved(ws, [ws EXCEPT !.pc = "exit"])
    /\ UNCHANGED <<legacyVars, containerVars, nameVars, validateVars, backoffVars, retryVars, heldVars, ctxVars, runPc, runErr, syncerVars,
                   results, execErr, stdVars, jobChan, feederIdx, resultChan,
                   resultClosed, engineLog, outputIO>>

\* executeSingleOperation starts on the worker: a dry run is over at once;
\* otherwise PullImage is called
WorkerBegin(ws) ==
    /\ ParRunning /\ ws.pc = "check"
    /\ ~cancelled
    /\ IF operations[ws.job].DryRun
       THEN /\ workers' = Moved(ws, [ws EXCEPT !.pc = "send",
                                               !.cur = BeginResult(ws.job)])
            /\ UNCHANGED engineLog
       ELSE /\ workers' = Moved(ws, [ws EXCEPT !.pc = "pull",
                                               !.cur = BeginResult(ws.job)])
            /\ engineLog' = CallIssued(engineLog, ws.job, "pull")
    /\ UNCHANGED <<legacyVars, containerVars, nameVars, validateVars, backoffVars, retryVars, heldVars, ctxVars, runPc, runErr, syncerVars,
                   results, execErr, stdVars, jobChan, feederIdx, resultChan,
                   resultClosed, outputIO>>

\* the worker's engine call in flight returns, nil or an error
WorkerStep(ws) ==
    /\ ParRunning /\ ws.pc \in {"pull", "tag", "push"}
    /\ \E ok \in BOOLEAN :
        /\ engineLog' = StepLogged(engineLog, ws.job, ws.pc, ok)
        /\ workers' = Moved(ws, [ws EXCEPT
                                    !.pc = IF EndsOperation(@, ok) THEN "send"
                                           ELSE StepAfter(@),
                                    !.cur = StepResult(@, ws.pc, ok)])
    /\ UNCHANGED <<legacyVars, containerVars, nameVars, validateVars, backoffVars, retryVars, heldVars, ctxVars, runPc, runErr, syncerVars,
                   results, execErr, stdVars, jobChan, feederIdx, resultChan,
                   resultClosed, outputIO>>

\* `resultChan <- result` (the channel holds a result for every operation)
WorkerSend(ws) ==
    /\ ParRunning /\ ws.pc = "send"
    /\ Len(resultChan) < NumOps
    /\ resultChan' = Append(resultChan, ws.cur)
    /\ workers' = Moved(ws, IdleWorker)
    /\ UNCHANGED <<legacyVars, containerVars, nameVars, validateVars, backoffVars, retryVars, heldVars, ctxVars, runPc, runErr, syncerVars,
                   results, execErr, stdVars, jobChan, feederIdx, resultClosed,
                   engineLog, outputIO>>

\* a closer that waits for the job queue to be closed and empty, not for the
\* workers
CloseResultsEarly ==
    /\ ParRunning /\ ~resultClosed
    /\ feederIdx = 0 /\ jobChan = <<>>
    /\ resultClosed' = TRUE
    /\ UNCHANGED <<legacyVars, containerVars, nameVars, validateVars, backoffVars, retryVars, heldVars, ctxVars, runPc, runErr, syncerVars,
                   results, execErr, stdVars, jobChan, feederIdx, resultChan,
                   workers, engineLog, outputIO>>

\* wg.Wait() returns when every worker is done; then close(resultChan)
CloseResults ==
    /\ ParRunning /\ ~resultClosed
    /\ \A ws \in BagToSet(workers) : ws.pc = "exit"
    /\ resultClosed' = TRUE
    /\ UNCHANGED <<legacyVars, containerVars, nameVars, validateVars, backoffVars, retryVars, heldVars, ctxVars, runPc, runErr, syncerVars,
                   results, execErr, stdVars, jobChan, feederIdx, resultChan,
                   workers, engineLog, outputIO>>

\* `for result := range resultChan`: the collector appends a result
Collect ==
    /\ ParRunning
    /\ resultChan # <<>>
    /\ results' = Append(results, Head(resultChan))
    /\ resultChan' = Tail(resultChan)
    /\ UNCHANGED <<legacyVars, containerVars, nameVars, validateVars, backoffVars, retryVars, heldVars, ctxVars, runPc, runErr, syncerVars,
                   execErr, stdVars, jobChan, feederIdx, resultClosed, workers,
                   engineLog, outputIO>>

\* Execute returning as soon as the workers are done, without draining resultChan
ParReturnEarly ==
    /\ ParRunning
    /\ resultClosed
    /\ execErr' = IF cancelled THEN "ContextError" ELSE "nil"
    /\ runPc' = "finish"
    /\ UNCHANGED <<legacyVars, containerVars, nameVars, validateVars, backoffVars, retryVars, heldVars, ctxVars, runErr, syncerVars, results,
                   stdVars, parVars, engineLog, outputIO>>

\* Execute returning nil without looking at ctx.Err()
ParReturnNoContextCheck ==
    /\ ParRunning
    /\ resultChan = <<>> /\ resultClosed
    /\ execErr' = "nil"
    /\ runPc' = "finish"
    /\ UNCHANGED <<legacyVars, containerVars, nameVars, validateVars, backoffVars, retryVars, heldVars, ctxVars, runErr, syncerVars, results,
                   stdVars, parVars, engineLog, outputIO>>

\* resultChan is closed and empty: Execute returns the results, with a
\* ContextError when ctx.Err() != nil
ParReturn ==
    /\ ParRunning
    /\ resultChan = <<>> /\ resultClosed
    /\ execErr' = IF cancelled THEN "ContextError" ELSE "nil"
    /\ runPc' = "finish"
    /\ UNCHANGED <<legacyVars, containerVars, nameVars, validateVars, backoffVars, retryVars, heldVars, ctxVars, runErr, syncerVars, results,
                   stdVars, parVars, engineLog, outputIO>>

(* --------------------------- end of the run --------------------------- *)

\* a Run that returns the error of Execute instead of going on to the output
RunFinishReturnsExecuteError ==
    /\ runPc = "finish"
    /\ \E io \in {"ok", "create fails", "write fails"} :
       LET stats == calculateStatistics(statistics, results)
           lines == OutputLines(results, stats, operations)
       IN  \E written \in (IF io = "write fails" THEN 0..(Len(lines) - 1) ELSE {0}) :
           LET out == generateOutput(results, stats, operations, outputFile, io, written)
           IN  /\ sresults' = results
               /\ statistics' = stats
               /\ processedCount' = processedCount + Len(results)
               /\ outputIO' = IF Len(results) = 0 \/ execErr # "nil" THEN "none" ELSE io
               /\ outputFile' = IF execErr # "nil" THEN outputFile ELSE out.file
               /\ runErr' = IF execErr # "nil" THEN execErr
                            ELSE IF out.err THEN "OperationError" ELSE "nil"
               /\ runPc' = "returned"
    /\ UNCHANGED <<legacyVars, containerVars, nameVars, validateVars, backoffVars, retryVars, heldVars, ctxVars, operations, strategy, results, execErr,
                   stdVars, parVars, engineLog>>

\* SyncerV2.Run after Execute returned: the results are stored and counted, the
\* output is generated, and Run returns nil unless generateOutput failed
RunFinish ==
    /\ runPc = "finish"
    /\ \E io \in {"ok", "create fails", "write fails"} :
       LET stats == calculateStatistics(statistics, results)
           lines == OutputLines(results, stats, operations)
       IN  \E written \in (IF io = "write fails" THEN 0..(Len(lines) - 1) ELSE {0}) :
           LET out == generateOutput(results, stats, operations, outputFile, io, written)
           IN  /\ sresults' = results
               /\ statistics' = stats
               /\ processedCount' = processedCount + Len(results)
               /\ outputIO' = IF Len(results) = 0 THEN "none" ELSE io
               /\ outputFile' = out.file
               /\ runErr' = IF out.err THEN "OperationError" ELSE "nil"
               /\ runPc' = "returned"
    /\ UNCHANGED <<legacyVars, containerVars, nameVars, validateVars, backoffVars, retryVars, heldVars, ctxVars, operations, strategy, results, execErr,
                   stdVars, parVars, engineLog>>

Next ==
    \/ Cancel
    \/ RunStart
    \/ StdReturn
    \/ StdCancelled
    \/ StdBegin
    \/ StdStep
    \/ FeederEnqueue
    \/ FeederSkip
    \/ FeederClose
    \/ \E ws \in BagToSet(workers) :
        \/ WorkerRecv(ws)
        \/ WorkerExit(ws)
        \/ WorkerCancelled(ws)
        \/ WorkerBegin(ws)
        \/ WorkerStep(ws)
        \/ WorkerSend(ws)
    \/ CloseResults
    \/ Collect
    \/ ParReturn
    \/ RunFinish

Spec == Init /\ [][Next]_vars

(* --------------------- Run, called a second time ---------------------- *)

\* Run has returned and is called again on the same SyncerV2, with a new context:
\* the fields of the syncer and the output file are as the first call left them
RunAgain ==
    /\ runPc = "returned"
    /\ ~rerun
    /\ rerun' = TRUE
    /\ runPc' = "init"
    /\ runErr' = "none"
    /\ cancelled' = FALSE
    /\ cancelPoint' = -1
    /\ results' = <<>>
    /\ execErr' = "none"
    /\ stdIdx' = 0
    /\ stdPc' = "idle"
    /\ stdCur' = NoResult
    /\ engineLog' = <<>>
    /\ outputIO' = "none"
    /\ UNCHANGED <<legacyVars, containerVars, nameVars, validateVars, backoffVars, retryVars, config, syncerVars, parVars>>

\* a SyncerV2 with a concurrency of 1 and an array shorter than the longest one,
\* which a caller may run twice
InitReuse ==
    /\ Init
    /\ config.Concurrency = 1
    /\ Len(config.Content.hubsync) < MaxImages

NextReuse ==
    \/ Cancel
    \/ RunStart
    \/ StdReturn
    \/ StdCancelled
    \/ StdBegin
    \/ StdStep
    \/ RunFinish
    \/ RunAgain

SpecReuse == InitReuse /\ [][NextReuse]_vars

(* ----------------- Run up to the operations it builds ---------------- *)

\* the configurations of a run whose operations are looked at: Force and the
\* repository set or not
BuildConfigs ==
    [Content : Contents,
     MaxContent : {MaxImages},
     Concurrency : {1},
     DryRun : BOOLEAN,
     Force : BOOLEAN,
     Repository : {<<>>, <<"r">>},
     Namespace : {<<"n">>}]

InitBuild ==
    /\ NameIdle
    /\ ValidateIdle
    /\ BackoffIdle
    /\ RetryIdle
    /\ LegacyIdle
    /\ ContainerIdle
    /\ config \in BuildConfigs
    /\ runPc = "init"
    /\ RunFresh

NextBuild == RunStart

SpecBuild == InitBuild /\ [][NextBuild]_vars

(* ------------------ ParallelStrategy.Execute, alone ------------------- *)

\* NewParallelStrategy(client, k).Execute(ctx, operations) called directly, as the
\* strategy factory's callers may: k workers whatever the number of operations
InitPar ==
    /\ NameIdle
    /\ ValidateIdle
    /\ BackoffIdle
    /\ RetryIdle
    /\ LegacyIdle
    /\ ContainerIdle
    /\ \E n \in 0..MaxImages, k \in 1..MaxConcurrency, dry \in BOOLEAN :
        /\ config = [Content |-> [valid |-> TRUE, hubsync |-> [i \in 1..n |-> ImageAt(i)]],
                     MaxContent |-> MaxImages, Concurrency |-> k, DryRun |-> dry,
                     Force |-> FALSE, Repository |-> <<>>, Namespace |-> <<"n">>]
        /\ operations = createSyncOperations(config.Content.hubsync, config)
        /\ engineLog = [i \in 1..n |-> <<>>]
        /\ workers = Pool(NewParallelStrategy(k))
    /\ strategy = "parallel"
    /\ runPc = "execute"
    /\ feederIdx = 1
    /\ rerun = FALSE
    /\ cancelled = FALSE
    /\ cancelPoint = -1
    /\ runErr = "none"
    /\ sresults = <<>>
    /\ statistics = ZeroStatistics
    /\ processedCount = 0
    /\ outputFile = NoFile
    /\ results = <<>>
    /\ execErr = "none"
    /\ stdIdx = 0
    /\ stdPc = "idle"
    /\ stdCur = NoResult
    /\ jobChan = <<>>
    /\ resultChan = <<>>
    /\ resultClosed = FALSE
    /\ outputIO = "none"

NextPar ==
    \/ Cancel
    \/ FeederEnqueue
    \/ FeederSkip
    \/ FeederClose
    \/ \E ws \in BagToSet(workers) :
        \/ WorkerRecv(ws)
        \/ WorkerExit(ws)
        \/ WorkerCancelled(ws)
        \/ WorkerBegin(ws)
        \/ WorkerStep(ws)
        \/ WorkerSend(ws)
    \/ CloseResults
    \/ Collect
    \/ ParReturn

SpecPar == InitPar /\ [][NextPar]_vars

\* the goroutines of Execute: the feeder, the workers, the closer, and the
\* caller, which collects and returns
Feeder == FeederEnqueue \/ FeederSkip \/ FeederClose
Worker ==
    \E ws \in BagToSet(workers) :
        \/ WorkerRecv(ws)
        \/ WorkerExit(ws)
        \/ WorkerCancelled(ws)
        \/ WorkerBegin(ws)
        \/ WorkerStep(ws)
        \/ WorkerSend(ws)
Collector == Collect \/ ParReturn

\* the Go scheduler runs every goroutine that can take a step, and every
\* engine call returns
FairPar ==
    /\ WF_vars(Feeder)
    /\ WF_vars(Worker)
    /\ WF_vars(CloseResults)
    /\ WF_vars(Collector)

\* Execute is called with at most MaxFairImages operations
InitParFair == InitPar /\ NumOps <= MaxFairImages

SpecParFair == InitParFair /\ [][NextPar]_vars /\ FairPar

(* --------------------- the name generator, alone ---------------------- *)

Nginx119 == <<"n", "g", "i", "n", "x", ":", "1", ".", "1", "9">>

\* the raw strings of the repository's name generator tests
TestImages ==
    {Yugasun \o <<"/">> \o Alpine \o <<"$">> \o Alpine,
     Yugasun \o <<"/">> \o Alpine \o <<":", "v", "1", "$">> \o Alpine,
     Nginx119,
     <<"n", "g", "i", "n", "x">>}

\* the characters the other raw strings are made of
Alphabet == {"a", "n", "v", ":", "/", "$"}

\* every sequence over S of length at most n
SeqsUpTo(S, n) == UNION {[1..k -> S] : k \in 0..n}

RawStrings == TestImages \cup (SeqsUpTo(Alphabet, MaxRawLen) \ {<<>>})
Repositories == {<<>>, <<"r">>}
Namespaces == {<<"n">>, Yugasun}

InitName ==
    /\ nameIn \in [raw : RawStrings, repository : Repositories, namespace : Namespaces]
    /\ namePc = "input"
    /\ nameOut = NoRefs
    /\ ValidateIdle
    /\ BackoffIdle
    /\ RetryIdle
    /\ LegacyIdle
    /\ ContainerIdle
    /\ RunIdle

\* generateImageReferences is called and returns
GenerateName ==
    /\ namePc = "input"
    /\ nameOut' = generateImageReferences(nameIn.raw, nameIn.repository,
                                          nameIn.namespace)
    /\ namePc' = "returned"
    /\ UNCHANGED <<legacyVars, containerVars, nameIn, validateVars, backoffVars, retryVars, runVars>>

NextName == GenerateName

SpecName == InitName /\ [][NextName]_vars

(* ---------------------- the engine client's retry --------------------- *)

\* the errors a call of the underlying operation may return
OperationErrors == {"e1", "e2"}

InitRetry ==
    /\ retryCfg \in [RetryCount : 0..MaxRetryCount, operationType : {"Pull", "Push"}]
    /\ attempt = 0
    /\ retryPc = "loop"
    /\ attemptLog = <<>>
    /\ lastErr = "nil"
    /\ retryCancelled = FALSE
    /\ retryRet = [type |-> "none", cause |-> "nil", attempts |-> 0]
    /\ NameIdle
    /\ LegacyIdle
    /\ ContainerIdle
    /\ ValidateIdle
    /\ BackoffIdle
    /\ RunIdle

\* context.WithTimeout(ctx, timeout): the derived context is done when ctx is
\* done or when the timeout has expired
WithTimeout(ctxDone, expired) == ctxDone \/ expired

\* opCtx, the context handed to the engine call of the attempt in flight, whose
\* own timeout has not expired
opCtx == WithTimeout(retryCancelled, FALSE)

\* the caller's context is cancelled, at any time before the call returns; a
\* call blocked in the select of the wait is woken by ctx.Done()
RetryCancel ==
    /\ retryPc \in {"loop", "wait", "call", "read"}
    /\ ~retryCancelled
    /\ retryCancelled' = TRUE
    /\ retryPc' = IF retryPc = "wait" THEN "woken" ELSE retryPc
    /\ UNCHANGED <<legacyVars, containerVars, nameVars, validateVars, backoffVars, runVars, retryCfg, attempt, attemptLog,
                   lastErr, retryRet>>

\* a loop that gives up one attempt early
ExhaustedEarly(n, retryCount) == n >= retryCount

\* the loop condition `attempt <= c.Config.RetryCount` is false
Exhausted(n, retryCount) == n > retryCount

\* the head of the loop: the first attempt is made at once, a later one after a
\* wait; when attempt > RetryCount the loop is over and an OperationError with
\* lastErr and RetryCount+1 attempts is returned
RetryLoop ==
    /\ retryPc = "loop"
    /\ IF Exhausted(attempt, retryCfg.RetryCount)
       THEN /\ retryRet' = [type |-> "OperationError", cause |-> lastErr,
                            attempts |-> retryCfg.RetryCount + 1]
            /\ retryPc' = "returned"
       ELSE /\ retryPc' = IF attempt > 0 THEN "wait" ELSE "call"
            /\ UNCHANGED retryRet
    /\ UNCHANGED <<legacyVars, containerVars, nameVars, validateVars, backoffVars, runVars, retryCfg, attempt, attemptLog, lastErr,
                   retryCancelled>>

\* the select of the wait takes `<-time.After(backoffDelay)`: the timer fired
\* while the call was blocked, or both cases were ready when the select began
RetryWaited ==
    /\ retryPc = "wait"
    /\ retryPc' = "call"
    /\ UNCHANGED <<legacyVars, containerVars, nameVars, validateVars, backoffVars, runVars, retryCfg, attempt, attemptLog, lastErr,
                   retryCancelled, retryRet>>

\* a select that goes on to the next attempt when ctx.Done() is taken
RetryWaitCancelledRetries ==
    /\ retryPc = "woken" \/ (retryPc = "wait" /\ retryCancelled)
    /\ retryPc' = "call"
    /\ UNCHANGED <<legacyVars, containerVars, nameVars, validateVars, backoffVars, runVars, retryCfg, attempt, attemptLog, lastErr,
                   retryCancelled, retryRet>>

\* the select of the wait takes `<-ctx.Done()`, which woke the call or was
\* ready when the select began: a ContextError is returned
RetryWaitCancelled ==
    /\ retryPc = "woken" \/ (retryPc = "wait" /\ retryCancelled)
    /\ retryRet' = [type |-> "ContextError", cause |-> "context canceled",
                    attempts |-> 0]
    /\ retryPc' = "returned"
    /\ UNCHANGED <<legacyVars, containerVars, nameVars, validateVars, backoffVars, runVars, retryCfg, attempt, attemptLog, lastErr,
                   retryCancelled>>

\* operation(opCtx) returns: an output stream, or an error, which becomes lastErr
\* and ends the attempt
RetryCall ==
    /\ retryPc = "call"
    /\ \E res \in {"nil"} \cup OperationErrors :
        /\ attemptLog' = Append(attemptLog, res)
        /\ IF res = "nil"
           THEN /\ retryPc' = "read"
                /\ UNCHANGED <<attempt, lastErr>>
           ELSE /\ lastErr' = res
                /\ attempt' = attempt + 1
                /\ retryPc' = "loop"
    /\ UNCHANGED <<legacyVars, containerVars, nameVars, validateVars, backoffVars, runVars, retryCfg, retryCancelled, retryRet>>

\* io.Copy(io.Discard, output) returns: nil is returned, or an IOError when the
\* stream could not be read to its end
RetryRead ==
    /\ retryPc = "read"
    /\ \E readOk \in BOOLEAN :
        retryRet' = IF readOk
                    THEN [type |-> "nil", cause |-> "nil", attempts |-> 0]
                    ELSE [type |-> "IOError", cause |-> "read error", attempts |-> 0]
    /\ retryPc' = "returned"
    /\ UNCHANGED <<legacyVars, containerVars, nameVars, validateVars, backoffVars, runVars, retryCfg, attempt, attemptLog, lastErr,
                   retryCancelled>>

NextRetry ==
    \/ RetryCancel
    \/ RetryLoop
    \/ RetryWaited
    \/ RetryWaitCancelled
    \/ RetryCall
    \/ RetryRead

SpecRetry == InitRetry /\ [][NextRetry]_vars

(* ------------------ the backoff of performWithRetry ------------------- *)

\* bit i of an int 0 <= n < 2^31
Bit(n, i) == IF i > 30 THEN 0 ELSE (n \div (2 ^ i)) % 2

\* time.Duration(1<<shift) * d in int64 arithmetic: the bits of d moved up by
\* shift places, those moved beyond bit 63 lost
ShiftedTimes(shift, d) ==
    [i \in WordBits |->
        IF i < d.exp + shift THEN 0 ELSE Bit(d.mant, i - (d.exp + shift))]

\* w / 2 for an even int64 w: the bits moved down one place, the sign kept
HalfOf(w) == [i \in WordBits |-> IF i = 63 THEN w[63] ELSE w[i + 1]]

\* backoffDelay before the retry of loop index k >= 1 (the code's attempt)
backoffDelay(k, d) ==
    IF k > 30
    THEN ShiftedTimes(30, d)
    ELSE HalfOf(ShiftedTimes(k, d))

\* configured retry delays: 0, 1ns, 1ms, 1s, 2s (the default), 8s, 10s, 1m
RetryDelays ==
    {Duration(0, 0), Duration(1, 0), Duration(15625, 6), Duration(1953125, 9),
     Duration(1953125, 10), Duration(1953125, 12), Duration(9765625, 10),
     Duration(29296875, 11)}

InitBackoff ==
    /\ backoffIn \in [RetryDelay : RetryDelays, attempt : 1..MaxAttempt]
    /\ backoffPc = "input"
    /\ backoffOut = ZeroWord
    /\ NameIdle
    /\ ValidateIdle
    /\ RetryIdle
    /\ LegacyIdle
    /\ ContainerIdle
    /\ RunIdle

\* the delay of the wait is computed
BackoffCompute ==
    /\ backoffPc = "input"
    /\ backoffOut' = backoffDelay(backoffIn.attempt, backoffIn.RetryDelay)
    /\ backoffPc' = "returned"
    /\ UNCHANGED <<legacyVars, containerVars, backoffIn, nameVars, validateVars, retryVars, runVars>>

NextBackoff == BackoffCompute

SpecBackoff == InitBackoff /\ [][NextBackoff]_vars

(* -------------------------- Config.Validate --------------------------- *)

ValidationError(message) == [type |-> "ValidationError", message |-> message]

ValidLogLevels == {"debug", "info", "warn", "error", "fatal"}

\* a Validate that lets a concurrency of zero through
ValidateFromZero(c) ==
    IF c.Username = "" THEN ValidationError("username is required")
    ELSE IF c.Password = "" THEN ValidationError("password is required")
    ELSE IF c.Content = "" THEN ValidationError("content is required")
    ELSE IF c.LogLevel \notin ValidLogLevels THEN ValidationError("invalid log level")
    ELSE IF c.Concurrency < 0 THEN ValidationError("invalid concurrency")
    ELSE IF c.RetryCount < 0 THEN ValidationError("invalid retry count")
    ELSE NoError

\* Config.Validate: the checks in the order of the code, each returning at once
Validate(c) ==
    IF c.Username = "" THEN ValidationError("username is required")
    ELSE IF c.Password = "" THEN ValidationError("password is required")
    ELSE IF c.Content = "" THEN ValidationError("content is required")
    ELSE IF c.LogLevel \notin ValidLogLevels THEN ValidationError("invalid log level")
    ELSE IF c.Concurrency < 1 THEN ValidationError("invalid concurrency")
    ELSE IF c.RetryCount < 0 THEN ValidationError("invalid retry count")
    ELSE NoError

\* the Configs Validate is called on: every field empty or not, valid or not
ValidateConfigs ==
    [Username : {"", "testuser"},
     Password : {"", "testpass"},
     Content : {"", "{\"hubsync\":[\"nginx:latest\"]}"},
     LogLevel : ValidLogLevels \cup {"", "trace", "INFO"},
     Concurrency : -1..MaxConcurrency,
     RetryCount : -1..1]

InitValidate ==
    /\ validateIn \in ValidateConfigs
    /\ validatePc = "input"
    /\ validateRet = NoError
    /\ BackoffIdle
    /\ NameIdle
    /\ RetryIdle
    /\ LegacyIdle
    /\ ContainerIdle
    /\ RunIdle

\* Validate is called and returns
ValidateCall ==
    /\ validatePc = "input"
    /\ validateRet' = Validate(validateIn)
    /\ validatePc' = "returned"
    /\ UNCHANGED <<legacyVars, containerVars, validateIn, backoffVars, nameVars, retryVars, runVars>>

NextValidate == ValidateCall

SpecValidate == InitValidate /\ [][NextValidate]_vars

(* --------------- the Syncer with errgroup and semaphore --------------- *)

\* an image name that keeps its path
imageNameWithPath(target) == target

\* `imageName := target; if strings.Contains(target, "/") { parts :=
\* strings.Split(target, "/"); imageName = parts[len(parts)-1] }`
imageNameOf(target) ==
    IF Contains(target, "/")
    THEN LET parts == Split(target, "/") IN parts[Len(parts)]
    ELSE target

\* Syncer.generateTargetName: the source and the target of a raw image string
generateTargetName(originalSource, repository, namespace) ==
    LET hasCustomPattern == Contains(originalSource, "$")
        dollarParts == Split(originalSource, "$")
        customName ==
            IF hasCustomPattern /\ Len(dollarParts) > 1 THEN dollarParts[2] ELSE <<>>
        cut == IF hasCustomPattern THEN dollarParts[1] ELSE originalSource
        source == IF ~Contains(cut, ":") THEN cut \o <<":">> \o Latest ELSE cut
        imageNameParts == Split(source, ":")
        imageTag == IF Len(imageNameParts) > 1 THEN imageNameParts[2] ELSE Latest
        isTaggedWithVersion ==
            ContainsSub(originalSource, <<":", "v">>) /\ hasCustomPattern
        named ==
            IF hasCustomPattern /\ customName # <<>>
            THEN IF ~Contains(customName, ":")
                 THEN customName \o <<":">> \o imageTag
                 ELSE customName
            ELSE IF isTaggedWithVersion THEN source ELSE source
        target ==
            IF repository = <<>>
            THEN IF ~HasPrefix(named, namespace \o <<"/">>)
                 THEN namespace \o <<"/">> \o imageNameOf(named)
                 ELSE named
            ELSE repository \o <<"/">> \o namespace \o <<"/">> \o imageNameOf(named)
    IN  [source |-> source, target |-> target]

\* both name generators are called on the same raw string and configuration
GenerateBothNames ==
    /\ namePc = "input"
    /\ nameOut' = generateImageReferences(nameIn.raw, nameIn.repository,
                                          nameIn.namespace)
    /\ targetNameOut' = generateTargetName(nameIn.raw, nameIn.repository,
                                           nameIn.namespace)
    /\ namePc' = "returned"
    /\ UNCHANGED <<legacyRunVars, containerVars, nameIn, validateVars, backoffVars,
                   retryVars, runVars>>

NextNames == GenerateBothNames

SpecNames == InitName /\ [][NextNames]_vars

\* the raw strings of the Syncer's runs: an empty entry, a plain name and a
\* name with a custom pattern
SyncerRaws == {<<>>, <<"a">>, <<"a", "$", "b">>}

\* a goroutine that g.Go has not started
NoGoroutine ==
    [pc |-> "none", source |-> <<>>, target |-> <<>>, attempt |-> 0,
     lastErr |-> "nil", ret |-> "nil", holds |-> FALSE, log |-> <<>>,
     read |-> <<>>, recorded |-> FALSE]

\* the Syncer that NewSyncer returned, when Run is called on it
InitSyncer ==
    /\ NameIdle
    /\ ValidateIdle
    /\ BackoffIdle
    /\ RetryIdle
    /\ RunIdle
    /\ ContainerIdle
    /\ targetNameOut = NoPair
    /\ syncerCfg \in [Concurrency : 1..MaxConcurrency, RetryCount : 0..MaxSyncerRetry,
                      Repository : {<<>>}, Namespace : {<<"n">>},
                      valid : BOOLEAN,
                      MaxContent : {MaxSyncerImages - 1, MaxSyncerImages}]
    /\ syncerImages \in SeqsUpTo(SyncerRaws, MaxSyncerImages)
    /\ syncerPc = "start"
    /\ loopIdx = 0
    /\ syncerRet = "none"
    /\ goroutines = <<>>
    /\ sem = 0
    /\ mutex = 0
    /\ Output = <<>>
    /\ syncerStats = ZeroStats
    /\ callerCancelled = FALSE
    /\ groupDone = FALSE
    /\ groupErr = "nil"

\* the goroutine of image i takes a step to state g
Goes(i, g) == goroutines' = [goroutines EXCEPT ![i] = g]

\* the caller cancels the context of Run; the group's context is its child
SyncerCancel ==
    /\ syncerPc \in {"start", "loop", "wait"}
    /\ ~callerCancelled
    /\ callerCancelled' = TRUE
    /\ groupDone' = TRUE
    /\ UNCHANGED <<targetNameOut, syncerCfg, syncerImages, syncerPc, loopIdx, syncerRet,
                   goroutines, sem, mutex, Output, syncerStats, groupErr,
                   containerVars, nameVars, validateVars, backoffVars, retryVars,
                   runVars>>

\* Run up to its loop: parseContent fails on invalid JSON and on an array longer
\* than MaxContent, and Run returns the error; else TotalImages is set and the
\* semaphore and the group are made
SyncerStart ==
    /\ syncerPc = "start"
    /\ IF ~syncerCfg.valid \/ Len(syncerImages) > syncerCfg.MaxContent
       THEN /\ syncerPc' = "returned"
            /\ syncerRet' = "parse"
            /\ UNCHANGED <<loopIdx, goroutines, syncerStats>>
       ELSE /\ syncerPc' = "loop"
            /\ loopIdx' = 1
            /\ goroutines' = [i \in 1..Len(syncerImages) |-> NoGoroutine]
            /\ syncerStats' = [syncerStats EXCEPT !.TotalImages = Len(syncerImages)]
            /\ UNCHANGED syncerRet
    /\ UNCHANGED <<targetNameOut, syncerCfg, syncerImages, sem, mutex, Output,
                   callerCancelled, groupDone, groupErr,
                   containerVars, nameVars, validateVars, backoffVars, retryVars,
                   runVars>>

\* one iteration of Run's loop: an empty name is counted as skipped, any other
\* name gets a goroutine
SyncerLoop ==
    /\ syncerPc = "loop"
    /\ loopIdx <= Len(syncerImages)
    /\ IF syncerImages[loopIdx] = <<>>
       THEN /\ syncerStats' = [syncerStats EXCEPT !.Skipped = @ + 1]
            /\ UNCHANGED goroutines
       ELSE /\ Goes(loopIdx, [NoGoroutine EXCEPT !.pc = "acquire",
                                                 !.source = syncerImages[loopIdx]])
            /\ UNCHANGED syncerStats
    /\ loopIdx' = loopIdx + 1
    /\ UNCHANGED <<targetNameOut, syncerCfg, syncerImages, syncerPc, syncerRet, sem,
                   mutex, Output, callerCancelled, groupDone, groupErr,
                   containerVars, nameVars, validateVars, backoffVars, retryVars,
                   runVars>>

\* the loop is over: Run goes on to g.Wait()
SyncerLoopEnd ==
    /\ syncerPc = "loop"
    /\ loopIdx > Len(syncerImages)
    /\ syncerPc' = "wait"
    /\ UNCHANGED <<targetNameOut, syncerCfg, syncerImages, loopIdx, syncerRet,
                   goroutines, sem, mutex, Output, syncerStats, callerCancelled,
                   groupDone, groupErr,
                   containerVars, nameVars, validateVars, backoffVars, retryVars,
                   runVars>>

\* sem.Acquire(ctx, 1) returns nil: the weight is free. (With a context that
\* is done, Acquire may still succeed without blocking.)
GoAcquire(i) ==
    /\ goroutines[i].pc = "acquire"
    /\ sem < syncerCfg.Concurrency
    /\ sem' = sem + 1
    /\ Goes(i, [goroutines[i] EXCEPT !.pc = "process", !.attempt = 1, !.holds = TRUE])
    /\ UNCHANGED <<targetNameOut, syncerCfg, syncerImages, syncerPc, loopIdx, syncerRet,
                   mutex, Output, syncerStats, callerCancelled, groupDone, groupErr,
                   containerVars, nameVars, validateVars, backoffVars, retryVars,
                   runVars>>

\* sem.Acquire(ctx, 1) returns ctx.Err(): the goroutine returns the error
\* without processing its image
GoAcquireFailed(i) ==
    /\ goroutines[i].pc = "acquire"
    /\ groupDone
    /\ Goes(i, [goroutines[i] EXCEPT !.pc = "return", !.ret = "acquire"])
    /\ UNCHANGED <<targetNameOut, syncerCfg, syncerImages, syncerPc, loopIdx, syncerRet,
                   sem, mutex, Output, syncerStats, callerCancelled, groupDone,
                   groupErr,
                   containerVars, nameVars, validateVars, backoffVars, retryVars,
                   runVars>>

\* the select before a retry takes `<-ctx.Done()`: ProcessImageWithRetry returns
\* the error, and records nothing
GoWaitCancelled(i) ==
    /\ goroutines[i].pc = "wait"
    /\ groupDone
    /\ Goes(i, [goroutines[i] EXCEPT !.pc = "return", !.ret = "context"])
    /\ UNCHANGED <<targetNameOut, syncerCfg, syncerImages, syncerPc, loopIdx, syncerRet,
                   sem, mutex, Output, syncerStats, callerCancelled, groupDone,
                   groupErr,
                   containerVars, nameVars, validateVars, backoffVars, retryVars,
                   runVars>>

\* the select before a retry takes `<-time.After(s.Config.RetryDelay)`
GoWaited(i) ==
    /\ goroutines[i].pc = "wait"
    /\ Goes(i, [goroutines[i] EXCEPT !.pc = "process"])
    /\ UNCHANGED <<targetNameOut, syncerCfg, syncerImages, syncerPc, loopIdx, syncerRet,
                   sem, mutex, Output, syncerStats, callerCancelled, groupDone,
                   groupErr,
                   containerVars, nameVars, validateVars, backoffVars, retryVars,
                   runVars>>

\* `source, target, lastErr = s.ProcessImage(ctx, source)` up to the engine
\* calls: the names are generated from the current value of source, the pair
\* is handed to the engine client, and the calls succeed or one of them fails.
\* After a failure the loop goes on to its next attempt, or leaves when
\* attempt > RetryCount + 1
GoProcess(i) ==
    /\ goroutines[i].pc = "process"
    /\ LET g == goroutines[i]
           pair == generateTargetName(g.source, syncerCfg.Repository,
                                      syncerCfg.Namespace)
           named == [g EXCEPT !.source = pair.source, !.target = pair.target,
                              !.log = Append(@, pair)]
       IN  \E ok \in BOOLEAN :
               IF ok
               THEN Goes(i, [named EXCEPT !.lastErr = "nil", !.pc = "lock"])
               ELSE Goes(i, [named EXCEPT
                                !.lastErr = "engine",
                                !.attempt = @ + 1,
                                !.pc = IF g.attempt + 1 <= syncerCfg.RetryCount + 1
                                       THEN "wait" ELSE "lock"])
    /\ UNCHANGED <<targetNameOut, syncerCfg, syncerImages, syncerPc, loopIdx, syncerRet,
                   sem, mutex, Output, syncerStats, callerCancelled, groupDone,
                   groupErr,
                   containerVars, nameVars, validateVars, backoffVars, retryVars,
                   runVars>>

\* a mutex that anyone can lock at any time
MutexFreeAlways == TRUE

\* s.mutex is unlocked
MutexFree == mutex = 0

\* s.mutex.Lock()
GoLock(i) ==
    /\ goroutines[i].pc = "lock"
    /\ MutexFree
    /\ mutex' = i
    /\ Goes(i, [goroutines[i] EXCEPT !.pc = "read"])
    /\ UNCHANGED <<targetNameOut, syncerCfg, syncerImages, syncerPc, loopIdx, syncerRet,
                   sem, Output, syncerStats, callerCancelled, groupDone, groupErr,
                   containerVars, nameVars, validateVars, backoffVars, retryVars,
                   runVars>>

\* the OutputItem of the goroutine of image i: "Success" from ProcessImage,
\* "Failed" from ProcessImageWithRetry
OutputItem(i) ==
    [image |-> i, Source |-> goroutines[i].source, Target |-> goroutines[i].target,
     Status |-> IF goroutines[i].lastErr = "nil" THEN "Success" ELSE "Failed"]

\* `s.Output = append(s.Output, ...)`: s.Output is read
GoRead(i) ==
    /\ goroutines[i].pc = "read"
    /\ Goes(i, [goroutines[i] EXCEPT !.pc = "append", !.read = Output])
    /\ UNCHANGED <<targetNameOut, syncerCfg, syncerImages, syncerPc, loopIdx, syncerRet,
                   sem, mutex, Output, syncerStats, callerCancelled, groupDone,
                   groupErr,
                   containerVars, nameVars, validateVars, backoffVars, retryVars,
                   runVars>>

\* `s.Output = append(s.Output, ...)`: the longer list is stored
GoAppend(i) ==
    /\ goroutines[i].pc = "append"
    /\ Output' = Append(goroutines[i].read, OutputItem(i))
    /\ Goes(i, [goroutines[i] EXCEPT !.pc = "count", !.read = <<>>])
    /\ UNCHANGED <<targetNameOut, syncerCfg, syncerImages, syncerPc, loopIdx, syncerRet,
                   sem, mutex, syncerStats, callerCancelled, groupDone, groupErr,
                   containerVars, nameVars, validateVars, backoffVars, retryVars,
                   runVars>>

\* `s.stats.Successful++` or `s.stats.Failed++`, then s.mutex.Unlock() and the
\* return of ProcessImageWithRetry
GoCount(i) ==
    /\ goroutines[i].pc = "count"
    /\ syncerStats' = IF goroutines[i].lastErr = "nil"
                      THEN [syncerStats EXCEPT !.Successful = @ + 1]
                      ELSE [syncerStats EXCEPT !.Failed = @ + 1]
    /\ mutex' = 0
    /\ Goes(i, [goroutines[i] EXCEPT !.pc = "return", !.ret = goroutines[i].lastErr,
                                     !.recorded = TRUE])
    /\ UNCHANGED <<targetNameOut, syncerCfg, syncerImages, syncerPc, loopIdx, syncerRet,
                   sem, Output, callerCancelled, groupDone, groupErr,
                   containerVars, nameVars, validateVars, backoffVars, retryVars,
                   runVars>>

\* the function of g.Go returns: sem.Release(1) when the weight was acquired,
\* and the group keeps the first error and cancels its context
GoReturn(i) ==
    /\ goroutines[i].pc = "return"
    /\ sem' = IF goroutines[i].holds THEN sem - 1 ELSE sem
    /\ IF goroutines[i].ret # "nil" /\ groupErr = "nil"
       THEN groupErr' = goroutines[i].ret /\ groupDone' = TRUE
       ELSE UNCHANGED <<groupErr, groupDone>>
    /\ Goes(i, [goroutines[i] EXCEPT !.pc = "done", !.holds = FALSE])
    /\ UNCHANGED <<targetNameOut, syncerCfg, syncerImages, syncerPc, loopIdx, syncerRet,
                   mutex, Output, syncerStats, callerCancelled,
                   containerVars, nameVars, validateVars, backoffVars, retryVars,
                   runVars>>

\* g.Wait() returns when every goroutine has returned; the error is only logged
SyncerWait ==
    /\ syncerPc = "wait"
    /\ \A i \in 1..Len(goroutines) : goroutines[i].pc \in {"none", "done"}
    /\ syncerPc' = "output"
    /\ groupDone' = TRUE
    /\ UNCHANGED <<targetNameOut, syncerCfg, syncerImages, loopIdx, syncerRet, goroutines,
                   sem, mutex, Output, syncerStats, callerCancelled, groupErr,
                   containerVars, nameVars, validateVars, backoffVars, retryVars,
                   runVars>>

\* Syncer.generateOutput: an error when s.Output is empty or the file cannot be
\* written, else nil; Run returns what it returns
SyncerOutput ==
    /\ syncerPc = "output"
    /\ \E io \in {"ok", "fails"} :
           syncerRet' = IF Len(Output) = 0 THEN "empty"
                        ELSE IF io = "fails" THEN "file" ELSE "nil"
    /\ syncerPc' = "returned"
    /\ UNCHANGED <<targetNameOut, syncerCfg, syncerImages, loopIdx, goroutines, sem,
                   mutex, Output, syncerStats, callerCancelled, groupDone, groupErr,
                   containerVars, nameVars, validateVars, backoffVars, retryVars,
                   runVars>>

NextSyncer ==
    \/ SyncerCancel
    \/ SyncerStart
    \/ SyncerLoop
    \/ SyncerLoopEnd
    \/ \E i \in 1..Len(goroutines) :
           \/ GoAcquire(i)
           \/ GoAcquireFailed(i)
           \/ GoWaitCancelled(i)
           \/ GoWaited(i)
           \/ GoProcess(i)
           \/ GoLock(i)
           \/ GoRead(i)
           \/ GoAppend(i)
           \/ GoCount(i)
           \/ GoReturn(i)
    \/ SyncerWait
    \/ SyncerOutput

SpecSyncer == InitSyncer /\ [][NextSyncer]_vars

(* --------------------------- the DI container ------------------------- *)

Callers == 1..MaxCallers

\* a goroutine that is not in a call of the container
NoCall == [pc |-> "idle", op |-> "none", ret |-> "none", got |-> 0]

InitContainer ==
    /\ NameIdle
    /\ ValidateIdle
    /\ BackoffIdle
    /\ RetryIdle
    /\ RunIdle
    /\ LegacyIdle
    /\ container = NewContainer
    /\ containerMutex = 0
    /\ callers = [t \in Callers |-> NoCall]
    /\ built = 0
    /\ closed = {}

\* the goroutine t takes a step to state c
Moves(t, c) == callers' = [callers EXCEPT ![t] = c]

\* c.mutex.Unlock() by defer, and the return of the call
Returns(t, ret) ==
    /\ containerMutex' = 0
    /\ Moves(t, [callers[t] EXCEPT !.pc = "idle", !.ret = ret])

\* Initialize: c.mutex.Lock()
InitializeLock(t) ==
    /\ callers[t].pc = "idle"
    /\ containerMutex = 0
    /\ container.initialized \/ built < MaxBuilt
    /\ containerMutex' = t
    /\ Moves(t, [NoCall EXCEPT !.pc = "check", !.op = "Initialize"])
    /\ UNCHANGED <<container, built, closed,
                   legacyVars, nameVars, validateVars, backoffVars, retryVars, runVars>>

\* `if c.initialized { return nil }`, else `c.config = cfg`
InitializeCheck(t) ==
    /\ callers[t].pc = "check"
    /\ IF container.initialized
       THEN /\ Returns(t, "nil")
            /\ UNCHANGED <<container, built>>
       ELSE /\ \E metrics \in BOOLEAN :
                   container' = [container EXCEPT
                                    !.config = [set |-> TRUE, MetricsEnabled |-> metrics]]
            /\ built' = built + 1
            /\ Moves(t, [callers[t] EXCEPT !.pc = "observability"])
            /\ UNCHANGED containerMutex
    /\ UNCHANGED <<closed,
                   legacyVars, nameVars, validateVars, backoffVars, retryVars, runVars>>

\* initializeObservability: the two managers are built; when metrics are
\* enabled the server is started, and its failure is the error of Initialize
InitializeObservability(t) ==
    /\ callers[t].pc = "observability"
    /\ container' = [container EXCEPT !.telemetryManager = built,
                                      !.metricsManager = built]
    /\ \E started \in BOOLEAN :
           IF container.config.MetricsEnabled /\ ~started
           THEN Returns(t, "SystemError")
           ELSE /\ Moves(t, [callers[t] EXCEPT !.pc = "docker"])
                /\ UNCHANGED containerMutex
    /\ UNCHANGED <<built, closed,
                   legacyVars, nameVars, validateVars, backoffVars, retryVars, runVars>>

\* initializeDockerClient: docker.NewClient returns a client, or an error that
\* is the error of Initialize
InitializeDockerClient(t) ==
    /\ callers[t].pc = "docker"
    /\ \E ok \in BOOLEAN :
           IF ok
           THEN /\ container' = [container EXCEPT !.dockerClient = built]
                /\ Moves(t, [callers[t] EXCEPT !.pc = "registry"])
                /\ UNCHANGED containerMutex
           ELSE /\ Returns(t, "ClientError")
                /\ UNCHANGED container
    /\ UNCHANGED <<built, closed,
                   legacyVars, nameVars, validateVars, backoffVars, retryVars, runVars>>

\* initializeRegistryClient
InitializeRegistryClient(t) ==
    /\ callers[t].pc = "registry"
    /\ container' = [container EXCEPT !.registryClient = built]
    /\ Moves(t, [callers[t] EXCEPT !.pc = "syncer"])
    /\ UNCHANGED <<containerMutex, built, closed,
                   legacyVars, nameVars, validateVars, backoffVars, retryVars, runVars>>

\* `c.syncer = sync.NewSyncerV2(c.config, c.dockerClient, c.registryClient)`
InitializeSyncer(t) ==
    /\ callers[t].pc = "syncer"
    /\ container' = [container EXCEPT
                        !.syncer = [id |-> built, client |-> container.dockerClient,
                                    registry |-> container.registryClient]]
    /\ Moves(t, [callers[t] EXCEPT !.pc = "flag"])
    /\ UNCHANGED <<containerMutex, built, closed,
                   legacyVars, nameVars, validateVars, backoffVars, retryVars, runVars>>

\* `c.initialized = true`, and Initialize returns nil
InitializeDone(t) ==
    /\ callers[t].pc = "flag"
    /\ container' = [container EXCEPT !.initialized = TRUE]
    /\ Returns(t, "nil")
    /\ UNCHANGED <<built, closed,
                   legacyVars, nameVars, validateVars, backoffVars, retryVars, runVars>>

\* the accessors: the field is read under the mutex
Get(t) ==
    /\ callers[t].pc = "idle"
    /\ containerMutex = 0
    /\ \E field \in {"dockerClient", "registryClient", "syncer", "telemetryManager",
                     "metricsManager", "config"} :
           Moves(t, [NoCall EXCEPT
                         !.op = field,
                         !.ret = "nil",
                         !.got = CASE field = "syncer" -> container.syncer.id
                                   [] field = "config" ->
                                          IF container.config.set THEN 1 ELSE 0
                                   [] OTHER -> container[field]])
    /\ UNCHANGED <<container, containerMutex, built, closed,
                   legacyVars, nameVars, validateVars, backoffVars, retryVars, runVars>>

\* Cleanup: c.mutex.Lock()
CleanupLock(t) ==
    /\ callers[t].pc = "idle"
    /\ containerMutex = 0
    /\ containerMutex' = t
    /\ Moves(t, [NoCall EXCEPT !.pc = "close", !.op = "Cleanup"])
    /\ UNCHANGED <<container, built, closed,
                   legacyVars, nameVars, validateVars, backoffVars, retryVars, runVars>>

\* the components of c that Cleanup closes: those that are not nil
Closing(c) ==
    {<<kind, c[kind]>> : kind \in {k \in {"metricsManager", "dockerClient",
                                          "registryClient"} : c[k] # 0}}

\* Cleanup closes the metrics manager, the Docker client and the registry
\* client; a Close may fail
CleanupClose(t) ==
    /\ callers[t].pc = "close"
    /\ closed' = closed \cup Closing(container)
    /\ \E failed \in BOOLEAN :
           Moves(t, [callers[t] EXCEPT
                         !.pc = "reset",
                         !.ret = IF failed /\ Closing(container) # {}
                                 THEN "OperationError" ELSE "nil"])
    /\ UNCHANGED <<container, containerMutex, built,
                   legacyVars, nameVars, validateVars, backoffVars, retryVars, runVars>>

\* a reset that leaves initialized as it is
ResetKeepsInitialized(c) ==
    [NewContainer EXCEPT !.config = c.config, !.initialized = c.initialized]

\* "Reset state": every component is nil and initialized is false; c.config
\* stays
Reset(c) == [NewContainer EXCEPT !.config = c.config]

\* Cleanup resets the fields and returns the first error of the Close calls
CleanupReset(t) ==
    /\ callers[t].pc = "reset"
    /\ container' = Reset(container)
    /\ Returns(t, callers[t].ret)
    /\ UNCHANGED <<built, closed,
                   legacyVars, nameVars, validateVars, backoffVars, retryVars, runVars>>

NextContainer ==
    \E t \in Callers :
        \/ InitializeLock(t)
        \/ InitializeCheck(t)
        \/ InitializeObservability(t)
        \/ InitializeDockerClient(t)
        \/ InitializeRegistryClient(t)
        \/ InitializeSyncer(t)
        \/ InitializeDone(t)
        \/ Get(t)
        \/ CleanupLock(t)
        \/ CleanupClose(t)
        \/ CleanupReset(t)

SpecContainer == InitContainer /\ [][NextContainer]_vars

(* -------------------------- properties of a run ----------------------- *)

\* the engine calls made for operation op that returned an error, and whether
\* the operation went through: a dry run, or pull, tag and push returned nil
FailedCalls(op) ==
    {i \in 1..Len(engineLog[op]) : engineLog[op][i].result = "error"}
Succeeded(op) ==
    \/ operations[op].DryRun
    \/ /\ Len(engineLog[op]) = 3
       /\ \A i \in 1..3 : engineLog[op][i].result = "nil"

\* C1: when the context is never cancelled, a batch of n >= 1 operations yields
\* exactly n results, one for each operation, whose success flag is the outcome of
\* that operation and whose error is set only by a failure of that operation, and
\* Run returns nil when the output file can be written
C1_PartialFailureNeverAborts ==
    (runPc \in {"finish", "returned"} /\ ~cancelled /\ NumOps >= 1) =>
        /\ execErr = "nil"
        /\ Len(results) = NumOps
        /\ \A op \in 1..NumOps :
              \E i \in 1..Len(results) :
                  /\ results[i].Operation = op
                  /\ results[i].Success = Succeeded(op)
                  /\ (results[i].Error # "nil") = (FailedCalls(op) # {})
        /\ (runPc = "returned" /\ outputIO = "ok") => runErr = "nil"

\* a run of three operations returned nil although the push of the second failed
C1_SecondPushFailed ==
    /\ runPc = "returned" /\ ~cancelled /\ NumOps = 3
    /\ ~operations[2].DryRun
    /\ Len(engineLog[2]) = 3 /\ engineLog[2][3].result = "error"
    /\ Succeeded(1) /\ Succeeded(3)
    /\ runErr = "nil"

\* the raw content is rejected by the parse stage
Rejected ==
    ~config.Content.valid \/ Len(config.Content.hubsync) > config.MaxContent

\* C6: when the content is not valid JSON or its array has more than max_content
\* entries, Run returns a ConfigError, no pull, tag or push is called and no
\* output file is written; an array of at most max_content entries is not rejected
C6_ParseRejectionBeforeSideEffects ==
    /\ Rejected =>
          /\ runPc \in {"init", "returned"}
          /\ runPc = "returned" => runErr = "ConfigError"
          /\ operations = <<>>
          /\ \A op \in DOMAIN engineLog : engineLog[op] = <<>>
          /\ outputFile = NoFile
    /\ ~Rejected => runErr # "ConfigError"

\* Run returned for an array of max_content + 1 entries
C6_OneTooMany ==
    /\ runPc = "returned"
    /\ config.Content.valid
    /\ Len(config.Content.hubsync) = config.MaxContent + 1
    /\ runErr = "ConfigError"

\* C7: in the Standard strategy the results are a prefix of the input in input
\* order, and an operation is not started before the result of the operation
\* before it has been appended
C7_StandardInOrderAndSequential ==
    strategy = "standard" =>
        /\ Len(results) <= NumOps
        /\ \A i \in 1..Len(results) : results[i].Operation = i
        /\ \A op \in 1..NumOps : engineLog[op] # <<>> => Len(results) >= op - 1

\* the Standard strategy works on the third operation after the first one failed
C7_ThirdStarted ==
    /\ strategy = "standard" /\ runPc = "execute"
    /\ stdIdx = 3 /\ stdPc = "tag"
    /\ ~results[1].Success /\ results[2].Success

\* every result of operation op, wherever it is
ResultsOf(op) ==
    {results[i] : i \in {j \in 1..Len(results) : results[j].Operation = op}}
        \cup {resultChan[i] : i \in {j \in 1..Len(resultChan) : resultChan[j].Operation = op}}
        \cup {sresults[i] : i \in {j \in 1..Len(sresults) : sresults[j].Operation = op}}
        \cup {ws.cur : ws \in {x \in BagToSet(workers) : x.job = op /\ x.pc = "send"}}

\* C8: for an operation with DryRun set, in both strategies, neither pull, tag nor
\* push is called, and its result has Success = true, a nil error and the single
\* "would sync" log line
C8_DryRunMakesNoEngineCall ==
    \A op \in 1..NumOps :
        operations[op].DryRun =>
            /\ engineLog[op] = <<>>
            /\ \A r \in ResultsOf(op) :
                  /\ r.Success
                  /\ r.Error = "nil"
                  /\ r.DetailedLogs = <<"Dry run: would sync">>

\* a dry run of two or more operations returned
C8_DryRunReturned ==
    /\ runPc = "returned" /\ config.DryRun
    /\ NumOps >= 2 /\ Len(sresults) = NumOps

\* the context was cancelled after some but not all operations were dispatched
MidRunCancel == cancelPoint \in 1..(NumOps - 1)

IsPrefix(a, b) == Len(a) <= Len(b) /\ SubSeq(b, 1, Len(a)) = a

\* the output file has the line of result r
Written(r) ==
    \E i \in 1..Len(outputFile.lines) :
        /\ outputFile.lines[i].kind = (IF r.Success THEN "docker pull" ELSE "failed")
        /\ outputFile.lines[i].source = operations[r.Operation].Source.FullName
        /\ outputFile.lines[i].target = operations[r.Operation].Target.FullName
        /\ outputFile.lines[i].error = r.Error

\* what Execute and Run return after a cancellation mid-run
MidRunCancelReturns ==
    (MidRunCancel /\ runPc \in {"finish", "returned"}) =>
        /\ execErr = "ContextError"
        /\ Len(results) < NumOps
        /\ runPc = "returned" =>
              /\ sresults = results
              /\ statistics.Successful
                    = Cardinality({i \in 1..Len(results) : results[i].Success})
              /\ statistics.Failed
                    = Cardinality({i \in 1..Len(results) : ~results[i].Success})
              /\ outputIO = "ok" => \A i \in 1..Len(results) : Written(results[i])

\* C4: in both strategies, when the context is cancelled after some but not all
\* operations were dispatched, Execute returns a ContextError and fewer results
\* than operations; from the cancellation on the results collected are kept as
\* they are, and Run counts them in the statistics and writes them to the output
C4_CancellationMidRun ==
    /\ []MidRunCancelReturns
    /\ [][cancelled => IsPrefix(results, results')]_vars

\* the Parallel strategy was cancelled when two of three operations were
\* dispatched, and Run wrote the two results it returned to the output
C4_CancelledParallelRunReturned ==
    /\ strategy = "parallel" /\ runPc = "returned"
    /\ MidRunCancel /\ cancelPoint = 2
    /\ Len(sresults) = 2
    /\ outputIO = "ok" /\ runErr = "nil"

\* the entries of the hubsync array that are empty strings
EmptyEntries ==
    {i \in 1..Len(config.Content.hubsync) : config.Content.hubsync[i] = <<>>}

\* each empty entry creates no operation and adds one to Skipped
EmptyEntriesSkipped ==
    (~Rejected /\ runPc # "init") =>
        /\ NumOps = Len(config.Content.hubsync) - Cardinality(EmptyEntries)
        /\ statistics.Skipped = Cardinality(EmptyEntries)

\* C9 as stated: for every array within max_content, each empty entry creates no
\* operation and adds one to Skipped, and Run returns nil whenever the output file
\* can be written
C9_EmptyStringsTolerated ==
    /\ EmptyEntriesSkipped
    /\ (~Rejected /\ ~cancelled /\ EmptyEntries # {} /\ runPc = "returned"
           /\ outputIO \notin {"create fails", "write fails"})
          => runErr = "nil"

\* C9, amended: for every array within max_content, each empty entry creates no
\* operation and adds one to Skipped; Run returns nil whenever there is at least
\* one result and the output file can be written, and when there is no result (so
\* when every entry is empty) it returns an OperationError and writes no file
C9_EmptyStringsSkipped ==
    /\ EmptyEntriesSkipped
    /\ (~Rejected /\ runPc = "returned") =>
          /\ (Len(sresults) >= 1 /\ outputIO = "ok") => runErr = "nil"
          /\ Len(sresults) = 0 => (runErr = "OperationError" /\ outputFile = NoFile)
          /\ Len(config.Content.hubsync) = Cardinality(EmptyEntries)
                => Len(sresults) = 0

\* Run returned nil for an array with two empty entries around an image
C9_EmptyAroundImage ==
    /\ runPc = "returned" /\ runErr = "nil"
    /\ Len(config.Content.hubsync) = 3
    /\ EmptyEntries = {1, 3}
    /\ statistics.Skipped = 2 /\ Len(sresults) = 1

\* the lines of the output file of a kind, and those of them for operation op
LinesOf(kind) ==
    {i \in 1..Len(outputFile.lines) : outputFile.lines[i].kind = kind}
LinesFor(kind, op) ==
    {i \in LinesOf(kind) :
        /\ outputFile.lines[i].source = operations[op].Source.FullName
        /\ outputFile.lines[i].target = operations[op].Target.FullName}

\* C15: when Run has written the output, the file holds exactly one "docker pull"
\* line for each successful result and none for a failed one, and the "failed to
\* sync" section, with one line (source, target, error) for each failed result,
\* is present if and only if at least one result failed
C15_OutputFollowsResults ==
    (runPc = "returned" /\ outputIO = "ok") =>
        /\ \A i \in 1..Len(sresults) :
              LET r == sresults[i]
              IN  IF r.Success
                  THEN /\ Cardinality(LinesFor("docker pull", r.Operation)) = 1
                       /\ LinesFor("failed", r.Operation) = {}
                  ELSE /\ LinesFor("docker pull", r.Operation) = {}
                       /\ Cardinality(LinesFor("failed", r.Operation)) = 1
                       /\ \A l \in LinesFor("failed", r.Operation) :
                             outputFile.lines[l].error = r.Error
        /\ Cardinality(LinesOf("docker pull")) + Cardinality(LinesOf("failed"))
              = Len(sresults)
        /\ (LinesOf("failed to sync") # {})
              = (\E i \in 1..Len(sresults) : ~sresults[i].Success)

\* C16: Run executes the operations with the Parallel strategy if and only if the
\* configured concurrency is greater than 1, and with the Standard strategy
\* otherwise
C16_StrategySelection ==
    /\ (runPc \in {"execute", "finish"} \/ (runPc = "returned" /\ ~Rejected)) =>
          /\ (strategy = "parallel") = (config.Concurrency > 1)
          /\ (strategy = "standard") = (config.Concurrency <= 1)
    /\ (workers # EmptyBag \/ jobChan # <<>> \/ resultChan # <<>>)
          => config.Concurrency > 1
    /\ stdPc # "idle" => config.Concurrency <= 1

\* a run with a concurrency of 2 returned the results of the Parallel strategy
C16_ParallelChosen ==
    /\ runPc = "returned" /\ config.Concurrency = 2
    /\ strategy = "parallel"
    /\ Len(sresults) >= 2

\* the steps of an operation, in the order of the protocol
StepOrder == <<"pull", "tag", "push">>

\* C18: in both strategies the engine calls of an operation are pull, tag, push
\* in that order, tag only after pull returned nil and push only after tag
\* returned nil; the first call that fails ends the operation with no later
\* call, and the error of the operation's result names the step that failed.
C18_StepProtocol ==
    \A op \in DOMAIN engineLog :
        LET calls == engineLog[op]
        IN  /\ Len(calls) <= Len(StepOrder)
            /\ \A i \in 1..Len(calls) :
                  /\ calls[i].call = StepOrder[i]
                  /\ i > 1 => calls[i - 1].result = "nil"
            /\ \A r \in ResultsOf(op) :
                  /\ FailedCalls(op) = {} => r.Error = "nil"
                  /\ \A i \in FailedCalls(op) :
                        /\ i = Len(calls)
                        /\ r.Error = "failed to " \o StepOrder[i]
                        /\ ~r.Success

\* a returned run in which one operation failed at its tag and another at its
\* push
C18_FailedAtTagAndAtPush ==
    /\ runPc = "returned"
    /\ \E op \in DOMAIN engineLog :
          /\ Len(engineLog[op]) = 2
          /\ engineLog[op][2].result = "error"
          /\ \E i \in 1..Len(sresults) :
                sresults[i].Operation = op /\ sresults[i].Error = "failed to tag"
    /\ \E op \in DOMAIN engineLog :
          /\ Len(engineLog[op]) = 3
          /\ engineLog[op][3].result = "error"
          /\ \E i \in 1..Len(sresults) :
                sresults[i].Operation = op /\ sresults[i].Error = "failed to push"

\* operation op was started: an engine call was issued for it, or its dry-run
\* result was made
Started(op) ==
    /\ op \in DOMAIN engineLog
    /\ engineLog[op] # <<>> \/ ResultsOf(op) # {}

\* a worker holds operation op at step pc
HoldsAt(op, pc) == Count(LAMBDA ws : ws.job = op /\ ws.pc = pc) > 0

\* C21: no new work is acquired after cancellation: an operation is started
\* only in a step where the context is not cancelled; the Standard loop returns
\* the ContextError at the first check before an operation that sees the
\* cancelled context; and a Parallel worker that has dequeued a job while the
\* context is cancelled exits, the job getting no engine call and no result.
C21_NoNewWorkAfterCancellation ==
    /\ [][\A op \in 1..MaxImages : (~Started(op) /\ Started(op)') => ~cancelled]_vars
    /\ [][(StdRunning /\ stdPc = "check" /\ stdIdx <= NumOps /\ cancelled) =>
             /\ runPc' = "finish"
             /\ execErr' = "ContextError"
             /\ results' = results
             /\ engineLog' = engineLog]_vars
    /\ [][\A op \in 1..MaxImages :
             (ParRunning /\ cancelled /\ HoldsAt(op, "check")) =>
                 /\ HoldsAt(op, "check")' \/ HoldsAt(op, "exit")'
                 /\ ~Started(op)']_vars

\* a cancelled Parallel run has returned, and a worker exited with a job it had
\* dequeued, for which no engine call was made and no result exists
C21_DequeuedJobDropped ==
    /\ strategy = "parallel" /\ runPc = "returned"
    /\ cancelled
    /\ \E op \in DOMAIN engineLog :
          /\ HoldsAt(op, "exit")
          /\ engineLog[op] = <<>>
          /\ ResultsOf(op) = {}
          /\ \E other \in DOMAIN engineLog : other # op /\ ResultsOf(other) # {}

\* what Run did after Execute returned a ContextError: the error is not
\* returned, the partial results are stored and counted
AfterContextError ==
    /\ runErr # "ContextError"
    /\ sresults = results
    /\ statistics.Successful = Cardinality({i \in 1..Len(results) : results[i].Success})
    /\ statistics.Failed = Cardinality({i \in 1..Len(results) : ~results[i].Success})

\* C23: when Execute returns a ContextError, Run does not return that error; it
\* computes the statistics over the partial results and calls the output
\* writer, and it returns nil whenever the output file can be written, whatever
\* number of results had been collected before the cancellation.
C23_StrategyErrorDoesNotStopRun ==
    (runPc = "returned" /\ execErr = "ContextError") =>
        /\ AfterContextError
        /\ outputIO \notin {"create fails", "write fails"} => runErr = "nil"

\* C23, amended: when Execute returns a ContextError, Run does not return that
\* error; it stores the partial results, counts them in the statistics and calls
\* the output writer; with at least one result it returns nil whenever the
\* output file can be written, the file holding every result; with no result
\* the output writer fails before touching the file and Run returns an
\* OperationError.
C23_StrategyErrorGoesOnToOutput ==
    (runPc = "returned" /\ execErr = "ContextError") =>
        /\ AfterContextError
        /\ Len(results) >= 1 =>
              /\ outputIO # "none"
              /\ outputIO = "ok" =>
                    (runErr = "nil" /\ \A i \in 1..Len(results) : Written(results[i]))
        /\ Len(results) = 0 =>
              (runErr = "OperationError" /\ outputFile = NoFile /\ outputIO = "none")

\* the context was cancelled before the first of two operations was started:
\* Execute returned a ContextError with no result and Run an OperationError
C23_CancelledBeforeFirstOperation ==
    /\ runPc = "returned" /\ execErr = "ContextError"
    /\ NumOps = 2
    /\ Len(sresults) = 0
    /\ runErr = "OperationError"

\* the statistics of one run, counted from its input and its results
RunStatistics ==
    [TotalImages |-> Len(config.Content.hubsync),
     Successful |-> Cardinality({i \in 1..Len(results) : results[i].Success}),
     Failed |-> Cardinality({i \in 1..Len(results) : ~results[i].Success}),
     Skipped |-> Cardinality(EmptyEntries)]

\* C24: no state persists across Run invocations: a second Run on the same
\* SyncerV2 yields the statistics (TotalImages, Successful, Failed, Skipped) and
\* the processed count of a run on a freshly constructed syncer with the same
\* engine behaviour, that is, those counted from its own input and results.
C24_NoStatePersistsAcrossRuns ==
    (rerun /\ runPc = "returned" /\ ~Rejected) =>
        /\ statistics = RunStatistics
        /\ GetProcessedImageCount = RunStatistics.Successful

\* C25: after one Run on a freshly constructed SyncerV2, TotalImages is the
\* length of the hubsync array, Skipped the number of its empty entries,
\* Successful + Failed the number of results the strategy returned, so that
\* Successful + Failed + Skipped = TotalImages when the context was never
\* cancelled; GetProcessedImageCount returns Successful, the number of
\* successful results.
C25_StatisticsAccounting ==
    (~rerun /\ runPc = "returned" /\ ~Rejected) =>
        /\ statistics.TotalImages = Len(config.Content.hubsync)
        /\ statistics.Skipped = Cardinality(EmptyEntries)
        /\ statistics.Successful + statistics.Failed = Len(results)
        /\ ~cancelled =>
              statistics.Successful + statistics.Failed + statistics.Skipped
                  = statistics.TotalImages
        /\ GetProcessedImageCount
              = Cardinality({i \in 1..Len(sresults) : sresults[i].Success})

\* a run that was never cancelled returned with one image skipped, one
\* synchronized and one failed
C25_OneOfEach ==
    /\ ~rerun /\ runPc = "returned" /\ ~cancelled
    /\ statistics = [TotalImages |-> 3, Successful |-> 1, Failed |-> 1, Skipped |-> 1]
    /\ GetProcessedImageCount = 1

\* every result a strategy has completed: returned, stored, on the result
\* channel or about to be sent by a worker
CompletedResults == UNION {ResultsOf(op) : op \in DOMAIN engineLog}

\* C29: in every SyncResult returned by either strategy, Error is not nil if
\* and only if Success is false: a successful or dry-run result has no error,
\* a failed result has the error of its failing step.
C29_ErrorIffNotSuccess ==
    \A r \in CompletedResults :
        /\ (r.Error # "nil") <=> ~r.Success
        /\ ~r.Success =>
              \E i \in FailedCalls(r.Operation) :
                  r.Error = "failed to " \o engineLog[r.Operation][i].call

\* a run returned a successful result and a failed one
C29_SuccessAndFailure ==
    /\ runPc = "returned"
    /\ \E i, j \in 1..Len(sresults) :
          /\ sresults[i].Success /\ sresults[i].Error = "nil"
          /\ ~sresults[j].Success /\ sresults[j].Error = "failed to pull"

\* the positions of the entries of the hubsync array that are not empty, and
\* the k-th of them
KeptEntries ==
    {i \in 1..Len(config.Content.hubsync) : config.Content.hubsync[i] # <<>>}
KeptEntry(k) ==
    CHOOSE i \in KeptEntries : Cardinality({j \in KeptEntries : j <= i}) = k

\* C30: createSyncOperations returns one operation per non-empty entry, in the
\* order of the entries, each with the source and target the name generator
\* gives for its entry, ValidateDst = not Force, and Force and DryRun copied
\* from the configuration.
C30_BuilderPreservesOrder ==
    runPc = "execute" =>
        /\ Len(operations) = Cardinality(KeptEntries)
        /\ \A k \in 1..Len(operations) :
              LET refs == generateImageReferences(config.Content.hubsync[KeptEntry(k)],
                                                  config.Repository, config.Namespace)
              IN  /\ operations[k].Source = refs.Source
                  /\ operations[k].Target = refs.Target
                  /\ operations[k].ValidateDst = ~config.Force
                  /\ operations[k].Force = config.Force
                  /\ operations[k].DryRun = config.DryRun

\* the array ["a", "", "aaa"] built with Force set: two operations, "a" before
\* "aaa", neither validating its destination
C30_TwoOfThreeForced ==
    /\ runPc = "execute"
    /\ config.Force /\ config.Repository = <<"r">>
    /\ config.Content.hubsync = <<ImageAt(1), <<>>, ImageAt(3)>>
    /\ Len(operations) = 2
    /\ operations[1].Source.FullName = ImageAt(1) \o <<":">> \o Latest
    /\ operations[2].Source.FullName = ImageAt(3) \o <<":">> \o Latest
    /\ operations[2].Target.FullName = <<"r", "/", "n", "/">> \o ImageAt(3) \o <<":">> \o Latest
    /\ ~operations[1].ValidateDst /\ operations[1].Force

(* ------------------- properties of the Parallel strategy -------------- *)

\* how often operation op occurs in a list of results, on the job queue, and in
\* the hands of a worker; the engine calls of a step made for it
InResults(op, rs) == Cardinality({i \in 1..Len(rs) : rs[i].Operation = op})
InJobChan(op) == Cardinality({i \in 1..Len(jobChan) : jobChan[i] = op})
Holding(op) ==
    Count(LAMBDA ws : ws.job = op /\ ws.pc \in {"check", "pull", "tag", "push", "send"})
Calls(op, step) ==
    Cardinality({i \in 1..Len(engineLog[op]) : engineLog[op][i].call = step})

\* C2: in ParallelStrategy.Execute no result is lost or duplicated: an operation
\* is on the job queue, with one worker, on the result channel or in the results,
\* never in two of them and never twice, each of its steps is called at most
\* once, every result is the result of an input operation, and when the context
\* was never cancelled the returned results hold every operation exactly once
C2_NoResultLostOrDuplicated ==
    strategy = "parallel" =>
        /\ \A i \in 1..Len(results) : results[i].Operation \in 1..NumOps
        /\ \A op \in 1..NumOps :
            /\ InJobChan(op) + Holding(op) + InResults(op, resultChan)
                  + InResults(op, results) <= 1
            /\ \A step \in {"pull", "tag", "push"} : Calls(op, step) <= 1
            /\ (runPc = "finish" /\ ~cancelled) => InResults(op, results) = 1

\* Execute returned every result of three or more operations, not in input order
C2_AllCollectedOutOfOrder ==
    /\ strategy = "parallel" /\ runPc = "finish" /\ ~cancelled
    /\ NumOps >= 3 /\ Len(results) = NumOps
    /\ results[1].Operation # 1

\* a worker between the start of its operation and the hand-over of the result
Executing(ws) == ws.pc \in {"pull", "tag", "push", "send"}

\* C3: with concurrency k >= 1, at most k operations are executing at the same
\* time, whatever the number of operations
C3_ConcurrencyBound ==
    (strategy = "parallel" /\ config.Concurrency >= 1)
        => Count(Executing) <= config.Concurrency

\* k >= 2 operations are executing while another one waits on the job queue
C3_PoolSaturated ==
    /\ strategy = "parallel" /\ config.Concurrency >= 2
    /\ Count(Executing) = config.Concurrency
    /\ jobChan # <<>>

\* operation op was placed on the job queue: it is still there, a worker took
\* it, or its result was sent
Enqueued(op) ==
    \/ InJobChan(op) > 0
    \/ Count(LAMBDA ws : ws.job = op) > 0
    \/ InResults(op, resultChan) > 0
    \/ InResults(op, results) > 0

\* the operations the feeder's loop is done with
FeederPassed == IF feederIdx = 0 THEN NumOps ELSE feederIdx - 1

\* C20: in ParallelStrategy.Execute the feeder stops enqueueing once the context
\* is cancelled: an operation for which the feeder's select took the cancelled
\* context (it was passed without being enqueued) is followed by no operation
\* that was placed on the job queue.
C20_FeederStopsOnceCancelled ==
    strategy = "parallel" =>
        \A i, j \in 1..FeederPassed :
            (i < j /\ ~Enqueued(i)) => ~Enqueued(j)

\* Execute has returned and none of its goroutines is left: the job queue is
\* closed, every worker is done, the result channel is closed and drained
Terminated ==
    /\ runPc = "finish"
    /\ feederIdx = 0
    /\ \A ws \in BagToSet(workers) : ws.pc = "exit"
    /\ resultClosed /\ resultChan = <<>>

\* C31: ParallelStrategy.Execute always terminates: when every engine call
\* returns and the goroutines are scheduled fairly, for every number of
\* operations, zero included, every concurrency and every time of
\* cancellation, the feeder closes the job queue, every worker exits, the
\* result channel is closed, the collector's loop ends and Execute returns.
C31_ExecuteTerminates == <>[]Terminated

\* Execute has terminated after a cancellation that came between two
\* operations: one has its result, the other was dropped
C31_TerminatedWithJobDropped ==
    /\ Terminated
    /\ cancelled
    /\ results # <<>>
    /\ Len(results) < NumOps

\* close(jobChan) has been executed
JobChanClosed == feederIdx = 0

\* C32: in ParallelStrategy.Execute the result channel is closed only after
\* every worker has exited, so no worker is about to send, or still working
\* towards a send, on a closed channel; and the job channel is closed exactly
\* once, by the feeder after the last iteration of its loop: it goes from open
\* to closed only when the feeder stands behind its loop, and once closed it
\* is never closed again.
C32_ChannelsClosedInOrder ==
    /\ [](resultClosed => \A ws \in BagToSet(workers) : ws.pc = "exit")
    /\ [][(~JobChanClosed /\ JobChanClosed') => feederIdx = NumOps + 1]_vars
    /\ [][JobChanClosed => JobChanClosed']_vars

\* both channels are closed while results that two workers sent are still in
\* the result channel
C32_ClosedWithResultsBuffered ==
    /\ resultClosed /\ JobChanClosed
    /\ Len(resultChan) >= 2
    /\ BagCardinality(workers) >= 2
    /\ runPc = "execute"

\* C33: a nil error means a complete result list: whenever
\* StandardStrategy.Execute or ParallelStrategy.Execute has returned a nil
\* error, the returned list holds exactly one result for each input operation
\* and nothing else.
C33_NilErrorMeansCompleteResults ==
    execErr = "nil" =>
        /\ Len(results) = NumOps
        /\ \A op \in 1..NumOps : InResults(op, results) = 1

\* the sequential loop returned nil although the context was cancelled, after
\* its last check, and the list is complete
C33_NilAfterLateCancellation ==
    /\ strategy = "standard"
    /\ execErr = "nil"
    /\ cancelled
    /\ NumOps >= 2
    /\ Len(results) = NumOps

(* ------------------- properties of the name generator ----------------- *)

YugasunAlpineCustom == Yugasun \o <<"/">> \o Alpine \o <<"$">> \o Alpine

\* C10: with namespace "yugasun" and no repository, the raw string
\* "yugasun/alpine$alpine" is mapped to the source "yugasun/alpine:latest" and the
\* target "yugasun/yugasun.alpine:latest"
C10_CustomNameAnchor ==
    (/\ namePc = "returned"
     /\ nameIn = [raw |-> YugasunAlpineCustom, repository |-> <<>>,
                  namespace |-> Yugasun])
        => /\ nameOut.Source.FullName = Yugasun \o <<"/">> \o Alpine \o <<":">> \o Latest
           /\ nameOut.Target.FullName =
                  Yugasun \o <<"/">> \o Yugasun \o <<".">> \o Alpine \o <<":">> \o Latest

\* the raw string of a returned call, its part before the first "$" and its custom
\* part, the one between the first and the second "$"
Raw == nameIn.raw
RawBase == Split(Raw, "$")[1]
RawCustom == IF Contains(Raw, "$") THEN Split(Raw, "$")[2] ELSE <<>>

\* repository + "/" when a repository is configured
RepositoryPrefix ==
    IF nameIn.repository = <<>> THEN <<>> ELSE nameIn.repository \o <<"/">>

\* the raw string is base$custom with a custom part that is not empty and has
\* neither ":" nor "/"
PlainCustom ==
    /\ namePc = "returned"
    /\ Contains(Raw, "$")
    /\ RawCustom # <<>>
    /\ ~Contains(RawCustom, ":") /\ ~Contains(RawCustom, "/")

\* the target is [repository/]namespace/custom:tag of the source, and the source
\* is the base, with ":latest" when the base has no ":"
CustomWithInheritedTag ==
    /\ nameOut.Target.FullName =
          RepositoryPrefix \o nameIn.namespace \o <<"/">> \o RawCustom \o <<":">>
              \o nameOut.Source.Tag
    /\ nameOut.Source.FullName =
          (IF Contains(RawBase, ":") THEN RawBase ELSE RawBase \o <<":">> \o Latest)

C12_VersionTagKeepsSource ==
    (/\ namePc = "returned"
     /\ nameIn.repository = <<>>
     /\ Contains(Raw, "$") /\ ContainsSub(Raw, <<":", "v">>))
        => nameOut.Target.FullName = nameOut.Source.FullName

\* the target base of the specification: the custom name, with the source's tag
\* when it has no ":", else the normalized source
SpecTargetBase ==
    IF RawCustom # <<>>
    THEN IF Contains(RawCustom, ":") THEN RawCustom
         ELSE RawCustom \o <<":">> \o nameOut.Source.Tag
    ELSE nameOut.Source.FullName

\* the part of s after its last "/", the whole of s when it has none
AfterLastSlash(s) ==
    LET slashes == {i \in 1..Len(s) : s[i] = "/"}
    IN  IF slashes = {} THEN s
        ELSE SubSeq(s, (CHOOSE i \in slashes : \A j \in slashes : j <= i) + 1, Len(s))

\* C13: when a repository is configured, the target full name is
\* repository/namespace/bare, where bare is the part of the target base after its
\* last "/"
C13_RepositoryQualified ==
    (namePc = "returned" /\ nameIn.repository # <<>>)
        => nameOut.Target.FullName =
              nameIn.repository \o <<"/">> \o nameIn.namespace \o <<"/">>
                  \o AfterLastSlash(SpecTargetBase)

\* "nginx:1.19" with repository "r" and namespace "yugasun" gives
\* "r/yugasun/nginx:1.19"
C13_NginxQualified ==
    /\ namePc = "returned"
    /\ Raw = Nginx119 /\ nameIn.repository = <<"r">> /\ nameIn.namespace = Yugasun
    /\ nameOut.Source.FullName = Nginx119
    /\ nameOut.Target.FullName = <<"r", "/">> \o Yugasun \o <<"/">> \o Nginx119

\* C14: for every raw string without ":", the source has the tag "latest" and its
\* full name is the part of the raw string before the first "$" with ":latest"
C14_TagDefaulting ==
    (namePc = "returned" /\ ~Contains(Raw, ":"))
        => /\ nameOut.Source.Tag = Latest
           /\ nameOut.Source.FullName = RawBase \o <<":">> \o Latest

\* "yugasun/alpine$alpine" has the source "yugasun/alpine:latest"
C14_CustomWithoutTag ==
    /\ namePc = "returned"
    /\ Raw = YugasunAlpineCustom
    /\ nameOut.Source.Tag = Latest
    /\ nameOut.Source.FullName = Yugasun \o <<"/">> \o Alpine \o <<":">> \o Latest

\* the full name that the fields of an ImageReference make up
Reconstructed(ref) ==
    (IF ref.Repository # <<>> THEN ref.Repository \o <<"/">> ELSE <<>>)
        \o ref.Name \o <<":">> \o ref.Tag

\* C27: for every raw string and every (repository, namespace), both references
\* returned by generateImageReferences have a non-empty FullName that equals
\* (Repository + "/" when Repository is non-empty) + Name + ":" + Tag.
C27_ImageReferenceInvariant ==
    namePc = "returned" =>
        \A ref \in {nameOut.Source, nameOut.Target} :
            /\ ref.FullName # <<>>
            /\ ref.FullName = Reconstructed(ref)

\* the prefix of a qualified target: repository/namespace/ or namespace/
TargetPrefix ==
    (IF nameIn.repository # <<>> THEN nameIn.repository \o <<"/">> ELSE <<>>)
        \o nameIn.namespace \o <<"/">>

AlreadyInNamespace ==
    /\ nameIn.repository = <<>>
    /\ HasPrefix(SpecTargetBase, nameIn.namespace \o <<"/">>)

C37_NameGeneratorsAgree ==
    namePc = "returned" =>
        /\ targetNameOut.source = nameOut.Source.FullName
        /\ targetNameOut.target = nameOut.Target.FullName

\* both generators have named a version-tagged source with a custom name and
\* a path under a repository
C37_CustomNameUnderRepository ==
    /\ namePc = "returned"
    /\ nameIn.raw = Yugasun \o <<"/">> \o Alpine \o <<":", "v", "1", "$">> \o Alpine
    /\ nameIn.repository = <<"r">>
    /\ targetNameOut.source = Yugasun \o <<"/">> \o Alpine \o <<":", "v", "1">>
    /\ targetNameOut.target =
           <<"r", "/">> \o nameIn.namespace \o <<"/">> \o Alpine \o <<":", "v", "1">>

(* ------- properties of the Syncer with errgroup and semaphore --------- *)

\* the pair the name generator gives for the raw string of image i
RawPair(i) ==
    generateTargetName(syncerImages[i], syncerCfg.Repository, syncerCfg.Namespace)

\* the OutputItems of image i
ItemsOf(i) == {k \in 1..Len(Output) : Output[k].image = i}

\* the OutputItems with a status
WithStatus(st) == {k \in 1..Len(Output) : Output[k].Status = st}

\* C34: whole-operation retry keeps the image mapping: every attempt of
\* ProcessImageWithRetry for one raw input, inputs with a `$` custom name
\* included, pulls the same source and tags and pushes the same target as the
\* first attempt, and the pair recorded is the pair the name generator gives
\* for the original raw string.
C34_RetryKeepsMapping ==
    /\ \A i \in 1..Len(goroutines) :
           \A k \in 1..Len(goroutines[i].log) : goroutines[i].log[k] = RawPair(i)
    /\ \A k \in 1..Len(Output) :
           /\ Output[k].Source = RawPair(Output[k].image).source
           /\ Output[k].Target = RawPair(Output[k].image).target

\* C35: in Syncer.Run, when the caller's context is never cancelled, the
\* failure of one image after its retries does not keep the other images from
\* being processed: on return every non-empty image has exactly one OutputItem
\* and Successful + Failed + Skipped = TotalImages.
C35_FailureDoesNotStopOthers ==
    (syncerPc = "returned" /\ syncerRet # "parse" /\ ~callerCancelled) =>
        /\ \A i \in 1..Len(syncerImages) :
               syncerImages[i] # <<>> => Cardinality(ItemsOf(i)) = 1
        /\ syncerStats.Successful + syncerStats.Failed + syncerStats.Skipped
               = syncerStats.TotalImages

\* the images being processed: their goroutines hold a weight of the semaphore
Processing == {i \in 1..Len(goroutines) : goroutines[i].holds}

\* C36: s.Output and the Successful and Failed counters are only updated under
\* the mutex: whenever the mutex is unlocked, len(Output) = Successful +
\* Failed, the counters are the numbers of items with their status, and every
\* goroutine that has recorded its image has exactly one item in s.Output, so
\* no item and no increment is lost; and at most Concurrency images are being
\* processed at the same time.
C36_OutputAndCountersUnderMutex ==
    /\ mutex = 0 =>
           /\ Len(Output) = syncerStats.Successful + syncerStats.Failed
           /\ syncerStats.Successful = Cardinality(WithStatus("Success"))
           /\ syncerStats.Failed = Cardinality(WithStatus("Failed"))
    /\ \A i \in 1..Len(goroutines) :
           goroutines[i].recorded => Cardinality(ItemsOf(i)) = 1
    /\ Cardinality(Processing) <= syncerCfg.Concurrency
    /\ Cardinality(Processing) = sem

\* two images have been recorded, one as a success and one as a failure, while
\* only one could be processed at a time
C36_TwoRecordedOneAtATime ==
    /\ syncerCfg.Concurrency = 1
    /\ Len(Output) = 2
    /\ syncerStats.Successful = 1 /\ syncerStats.Failed = 1
    /\ mutex = 0

(* -------------------- properties of the DI container ------------------ *)

\* a call of goroutine t returns in this step
ReturnsNow(t, op) ==
    /\ callers[t].op = op /\ callers[t].pc # "idle"
    /\ callers'[t].pc = "idle"

\* what the accessors can see: the fields while the mutex is unlocked
Consistent ==
    containerMutex = 0 =>
        /\ container.initialized <=> container.syncer.id # 0
        /\ container.initialized =>
               /\ container.dockerClient # 0
               /\ container.registryClient # 0
               /\ container.syncer.client = container.dockerClient
               /\ container.syncer.registry = container.registryClient
               /\ <<"dockerClient", container.dockerClient>> \notin closed
               /\ <<"registryClient", container.registryClient>> \notin closed

\* C38: the lifecycle of the DI container: under any sequence and
\* interleaving of Initialize, Cleanup and the accessors, initialized is true
\* if and only if the syncer is not nil, and initialized implies that the
\* engine client and the registry client are not nil; an Initialize that
\* fails leaves initialized false, an Initialize on an initialized container
\* changes nothing, and Cleanup resets the container, so that a later
\* Initialize builds fresh components: the clients of an initialized container
\* are those its syncer was built with and have not been closed.
C38_ContainerLifecycle ==
    /\ []Consistent
    /\ [][\A t \in Callers :
              /\ (ReturnsNow(t, "Initialize") /\ callers'[t].ret # "nil")
                     => ~container'.initialized
              /\ (ReturnsNow(t, "Initialize") /\ container.initialized)
                     => (container' = container /\ callers'[t].ret = "nil")
              /\ ReturnsNow(t, "Cleanup")
                     => /\ ~container'.initialized
                        /\ container'.syncer.id = 0
                        /\ container'.dockerClient = 0
                        /\ container'.registryClient = 0]_vars

\* the container has been initialized a second time, after a Cleanup that
\* closed the clients of the first time
C38_InitializedAgainAfterCleanup ==
    /\ containerMutex = 0
    /\ container.initialized
    /\ container.syncer.id = 2
    /\ container.dockerClient = 2
    /\ <<"dockerClient", 1>> \in closed

(* --------------------- properties of the retry loop ------------------- *)

\* the calls of the underlying operation made so far, and those that returned
\* an error
Attempts == Len(attemptLog)
FailedAttempts == {i \in 1..Attempts : attemptLog[i] # "nil"}

\* C5 as stated: with a context that is never cancelled, at most RetryCount+1
\* attempts are made, the attempts stop at the first success, which returns nil,
\* and when every attempt fails exactly RetryCount+1 attempts are made and an
\* OperationError wrapping the last attempt's error and naming RetryCount+1
\* attempts is returned
C5_RetryExhaustion ==
    ~retryCancelled =>
        /\ Attempts <= retryCfg.RetryCount + 1
        /\ \A i \in 1..(Attempts - 1) : attemptLog[i] # "nil"
        /\ retryPc = "returned" =>
              IF Cardinality(FailedAttempts) = Attempts
              THEN /\ Attempts = retryCfg.RetryCount + 1
                   /\ retryRet = [type |-> "OperationError",
                                  cause |-> attemptLog[Attempts],
                                  attempts |-> retryCfg.RetryCount + 1]
              ELSE retryRet.type = "nil"

\* C5, amended: with a context that is never cancelled, at most RetryCount+1
\* attempts are made; the attempts stop at the first call that returns no error,
\* and the call then returns nil when the output stream was read to its end and
\* an IOError, without another attempt, when reading it failed; when every call
\* returns an error exactly RetryCount+1 attempts are made and an OperationError
\* wrapping the last attempt's error and naming RetryCount+1 attempts is returned
C5_RetryExhaustionOrReadError ==
    ~retryCancelled =>
        /\ Attempts <= retryCfg.RetryCount + 1
        /\ \A i \in 1..(Attempts - 1) : attemptLog[i] # "nil"
        /\ retryPc = "returned" =>
              IF Cardinality(FailedAttempts) = Attempts
              THEN /\ Attempts = retryCfg.RetryCount + 1
                   /\ retryRet = [type |-> "OperationError",
                                  cause |-> attemptLog[Attempts],
                                  attempts |-> retryCfg.RetryCount + 1]
              ELSE retryRet.type \in {"nil", "IOError"}

\* every attempt failed with a retry count of at least 2, the errors differing,
\* and the call returned
C5_Exhausted ==
    /\ ~retryCancelled /\ retryPc = "returned"
    /\ retryCfg.RetryCount >= 2
    /\ Cardinality(FailedAttempts) = Attempts
    /\ attemptLog[1] # attemptLog[Attempts]

\* C19: no wait precedes the first attempt, and when the context is cancelled
\* while performWithRetry is waiting before a retry, the call returns a
\* ContextError as its next step and makes no further attempt.
C19_BackoffWaitCancellable ==
    /\ [](retryPc \in {"wait", "woken"} => (attempt > 0 /\ Len(attemptLog) = attempt))
    /\ [][(retryPc = "wait" /\ ~retryCancelled /\ retryCancelled') =>
             retryPc' = "woken"]_vars
    /\ [][retryPc = "woken" =>
             /\ retryPc' = "returned"
             /\ retryRet'.type = "ContextError"
             /\ attemptLog' = attemptLog]_vars
    /\ [](retryPc = "woken" => [](Len(attemptLog) = attempt))

\* two attempts have failed and the context is cancelled while the call is
\* blocked in the wait before its second retry
C19_CancelledWhileWaiting ==
    /\ retryPc = "woken"
    /\ retryCancelled
    /\ attempt = 2
    /\ Len(attemptLog) = 2
    /\ retryCfg.RetryCount >= 2

\* C22: cancelling the context does not interrupt an in-flight pull or push: when
\* the context is cancelled while an engine call is in flight (issued and not
\* returned, its output not read to the end), the context of that call is not
\* done, so that the call runs to its own completion or its own timeout.
C22_InFlightCallNotInterrupted ==
    [][(retryPc \in {"call", "read"} /\ ~retryCancelled /\ retryCancelled') =>
          ~opCtx']_vars

(* ---------------------- properties of the backoff --------------------- *)

\* the int64 w is negative
Negative(w) == w[63] = 1

\* a < b for two int64
Less(a, b) ==
    IF a[63] # b[63] THEN a[63] = 1
    ELSE \E i \in WordBits : a[i] < b[i] /\ \A j \in WordBits : j > i => a[j] = b[j]

\* d * 2^shift is below 2^63
Fits(shift, d) ==
    \A j \in 0..30 : Bit(d.mant, j) = 1 => j + d.exp + shift <= 62

\* the exponent of the wait before the k-th retry
WaitExponent(k) == IF k <= 30 THEN k - 1 ELSE 30

\* C26: the wait before the k-th retry is RetryDelay * 2^(k-1) for k <= 30 and
\* RetryDelay * 2^30 for k > 30, and for every attempt and every configured
\* retry delay the value computed in int64 does not wrap around: it is that
\* product, it is not negative and it is not smaller than the wait before the
\* previous retry.
C26_BackoffNeverOverflows ==
    backoffPc = "returned" =>
        LET k == backoffIn.attempt
            d == backoffIn.RetryDelay
        IN  /\ Fits(WaitExponent(k), d)
            /\ backoffOut = ShiftedTimes(WaitExponent(k), d)
            /\ ~Negative(backoffOut)
            /\ k > 1 => ~Less(backoffOut, backoffDelay(k - 1, d))

(* --------------------- properties of Config.Validate ------------------ *)

\* the checks Validate makes, in the order the claim lists them
ValidateChecks(c) ==
    << [ok |-> c.Username # "", message |-> "username is required"],
       [ok |-> c.Password # "", message |-> "password is required"],
       [ok |-> c.Content # "", message |-> "content is required"],
       [ok |-> c.LogLevel \in {"debug", "info", "warn", "error", "fatal"},
        message |-> "invalid log level"],
       [ok |-> c.Concurrency >= 1, message |-> "invalid concurrency"],
       [ok |-> c.RetryCount >= 0, message |-> "invalid retry count"] >>

\* C17: Validate returns nil exactly when username, password and content are
\* non-empty, the log level is one of debug, info, warn, error, fatal, the
\* concurrency is at least 1 and the retry count at least 0; otherwise it
\* returns a ValidationError for the first check that fails, in the order
\* username, password, content, log level, concurrency, retry count.
C17_ValidateFirstFailingCheck ==
    validatePc = "returned" =>
        LET checks == ValidateChecks(validateIn)
            failing == {k \in 1..Len(checks) : ~checks[k].ok}
        IN  /\ (validateRet = NoError) <=> (failing = {})
            /\ failing # {} =>
                LET first == CHOOSE k \in failing : \A j \in failing : k <= j
                IN  /\ validateRet.type = "ValidationError"
                    /\ validateRet.message = checks[first].message

\* a Config with no username, no log level and a concurrency of zero is
\* rejected for its username
C17_MissingUsernameFirst ==
    /\ validatePc = "returned"
    /\ validateIn.Username = ""
    /\ validateIn.Password # ""
    /\ validateIn.LogLevel = ""
    /\ validateIn.Concurrency = 0
    /\ validateRet = ValidationError("username is required")

====
